---- MODULE Spec2Model ----
(***************************************************************************)
(* ChatsPlus (SillyTavern extension): the organization index (pinned       *)
(* chats, chat -> folder assignments), the reconciliation of stored owner  *)
(* ids after the host rebuilt its character directory, the chat            *)
(* aggregation pass of the recent-chats view and the folders-tab refresh   *)
(* latch.                                                                  *)
(*                                                                         *)
(* JavaScript strings are sequences of one-character strings, so that the  *)
(* key  characterId + ':' + file_name  and  key.split(':', n)  are         *)
(* computed, not assumed to be inverse to each other.  A JavaScript object *)
(* used as a map is the sequence of its entries in insertion order.        *)
(***************************************************************************)
EXTENDS Integers, Sequences, FiniteSets, TLC

\* ------------------------------------------------------------------------
\* Bounds of the model
\* ------------------------------------------------------------------------
\* largest number of characters in the host's character array
MaxChars == 2
\* largest number of Pinned Set entries a user action may create
MaxPinned == 2
\* largest number of Assignment Map keys a user action may create
MaxKeys == 2
\* largest number of folders a user action may assign one chat to
MaxFoldersPerChat == 1
\* largest number of folders a user action may create
MaxFolders == 2

\* ------------------------------------------------------------------------
\* Values
\* ------------------------------------------------------------------------
\* avatars: the stable identity of a character card
Avatars == {<<"a">>, <<"b">>}
\* group ids
Groups == {<<"g">>}
\* chat file names that exist on the host
Files == {<<"x">>, <<"y">>}
\* folder ids, in the order of their creation time
FolderIds == <<"f1", "f2", "f3", "f4">>
\* folder names
FolderNames == {"n"}
\* the parent of a root folder
Null == "null"
\* the decimal digits, to print an array index
Digits == <<"0", "1", "2", "3", "4", "5", "6", "7", "8", "9">>
\* the value of a destructured array element that does not exist
Undefined == <<"undefined">>

Min(a, b) == IF a < b THEN a ELSE b

Range(s) == {s[i] : i \in 1..Len(s)}

VARIABLES
    characters,     \* host: context.characters, the array of character cards (by avatar)
    hostChats,      \* host: the chat files of each avatar and of each group
    pinned,         \* settings.pinnedChats
    folders,        \* settings.folders
    chatFolders,    \* settings.chatFolders, entries in insertion order
    rpc,            \* reconciliation: position of each scheduled remap
    rentries,       \* reconciliation: Object.entries(characters) of each remap
    ridx,           \* reconciliation: index of the awaited chat listing
    rgt,            \* reconciliation: chatFileToCharacterId of each remap
    rDirty,         \* history: the host changed or a listing failed since the remap began
    pruneTimers,    \* reconciliation: the ids whose prune is scheduled
    isRefreshingFoldersTab, \* folders tab: the refresh latch
    rfpc,           \* folders tab: position of each refreshFoldersTab call
    rfentries,      \* folders tab: Object.entries(characters) of each call
    rfAllChats,     \* folders tab: allChats of each call
    rfLast,         \* history: the last refreshFoldersTab call that returned or suspended
    rfEnded,        \* history: the ways in which refreshes that held the latch ended
    hostStats,      \* host: the last_mes of each chat file of each avatar
    viewOpen,       \* recent view: the loader and the chat container exist
    lastFilter,     \* recent view: lastFilter
    lastChatsData,  \* recent view: the cache { allChats, chatStatsMap }
    offset,         \* recent view: offset
    totalChats,     \* recent view: totalChats
    loadMoreHidden, \* recent view: the Load More button is hidden
    container,      \* recent view: the rendered items of the chat container
    apc,            \* aggregation: position of each populateAllChatsTab call
    aarg,           \* aggregation: arguments of each call
    aentries,       \* aggregation: Object.entries(characters) of each call
    aAllChats,      \* aggregation: allChats of each call
    aListOk,        \* history: the indices whose chat listing succeeded, per call
    aDirty,         \* history: the host changed its directory during the call
    passLast,       \* history: the last completed populateAllChatsTab call
    last,           \* history: the last data-model operation, its inputs and the state it found
    defaultSettings, \* settings: the pinnedChats, folders and chatFolders of the defaultSettings object
    aliased,        \* settings: the fields of the stored record that are the objects of defaultSettings
    shape,          \* settings: per field of the stored record, a collection, null or of the wrong shape
    recordNull,     \* settings: the stored record is null (an accessor replaces it by a clone of the defaults)
    threw,          \* history: the last data-model operation raised an exception
    cacheStale,     \* history: a chat was renamed, pinned or assigned since the view's cache was set
    backupVersions, \* backups: the list recorded under chatsPlusBackupVersions in localStorage
    serverFiles,    \* host: the urls of the attachment files on the server
    today,          \* host: the current date
    uploads,        \* host: the number of files uploaded so far
    backupLast      \* history: the last createBackup call, its result and the state it found

refreshVars == <<isRefreshingFoldersTab, rfpc, rfentries, rfAllChats, rfLast, rfEnded>>

viewVars == <<viewOpen, lastFilter, lastChatsData, offset, totalChats, loadMoreHidden, container>>

aggVars == <<hostStats, viewVars, apc, aarg, aentries, aAllChats, aListOk, aDirty, passLast>>

backupVars == <<backupVersions, serverFiles, today, uploads, backupLast>>

recordVars == <<defaultSettings, aliased, shape, recordNull, threw, cacheStale>>

vars == <<characters, hostChats, backupVars, pinned, folders, chatFolders, rpc, rentries, ridx, rgt, rDirty, pruneTimers, last,
          refreshVars, aggVars, recordVars>>

\* ------------------------------------------------------------------------
\* Strings and keys
\* ------------------------------------------------------------------------
\* Object.entries(characters) yields the array index as a string
charIdOf(i) == <<Digits[i]>>

\* the ids of the characters of an array
CharIdsOf(chars) == {charIdOf(i) : i \in 1..Len(chars)}

\* characters[charId] is defined
HasCharacter(chars, charId) == charId \in CharIdsOf(chars)

\* chat.characterId + ':' + chat.file_name
ChatKey(characterId, fileName) == characterId \o <<":">> \o fileName

\* String.prototype.split(':'), all pieces
RECURSIVE SplitColon(_)
SplitColon(s) ==
    IF \A i \in 1..Len(s) : s[i] # ":"
    THEN <<s>>
    ELSE LET i == CHOOSE k \in 1..Len(s) : s[k] = ":" /\ \A j \in 1..(k - 1) : s[j] # ":"
         IN  <<SubSeq(s, 1, i - 1)>> \o SplitColon(SubSeq(s, i + 1, Len(s)))

\* key.split(':', limit): the first limit pieces
JsSplit(s, limit) == SubSeq(SplitColon(s), 1, Min(limit, Len(SplitColon(s))))

\* const [charId, fileName] = key.split(':', 2)
KeyCharId(key) == JsSplit(key, 2)[1]
KeyFileName(key) == IF Len(JsSplit(key, 2)) >= 2 THEN JsSplit(key, 2)[2] ELSE Undefined

\* const [charId] = key.split(':', 1)
KeyOwner(key) == JsSplit(key, 1)[1]

\* ------------------------------------------------------------------------
\* JavaScript objects as insertion-ordered entry lists
\* ------------------------------------------------------------------------
ObjKeys(m) == {m[i].key : i \in 1..Len(m)}
ObjHas(m, k) == k \in ObjKeys(m)
ObjIndex(m, k) == CHOOSE i \in 1..Len(m) : m[i].key = k
ObjGet(m, k) == m[ObjIndex(m, k)].ids
\* m[k] = v
ObjSet(m, k, v) ==
    IF ObjHas(m, k) THEN [m EXCEPT ![ObjIndex(m, k)].ids = v]
    ELSE Append(m, [key |-> k, ids |-> v])
\* delete m[k]
ObjDelete(m, k) ==
    IF ObjHas(m, k)
    THEN SubSeq(m, 1, ObjIndex(m, k) - 1) \o SubSeq(m, ObjIndex(m, k) + 1, Len(m))
    ELSE m

\* ------------------------------------------------------------------------
\* Data model accessors
\* ------------------------------------------------------------------------
\* a chat as the views hand it to the accessors
Chat(characterId, fileName) == [characterId |-> characterId, file_name |-> fileName]

\* pinned.some(x => x.characterId === chat.characterId && x.file_name === chat.file_name)
isChatPinned(p, chat) ==
    \E i \in 1..Len(p) : p[i].characterId = chat.characterId /\ p[i].file_name = chat.file_name

\* togglePinChat: findIndex, then push or splice(idx, 1)
togglePinChat(p, chat) ==
    IF isChatPinned(p, chat)
    THEN LET idx == CHOOSE i \in 1..Len(p) :
                        /\ p[i].characterId = chat.characterId /\ p[i].file_name = chat.file_name
                        /\ \A j \in 1..(i - 1) : ~(p[j].characterId = chat.characterId /\ p[j].file_name = chat.file_name)
         IN  SubSeq(p, 1, idx - 1) \o SubSeq(p, idx + 1, Len(p))
    ELSE Append(p, Chat(chat.characterId, chat.file_name))

\* the ids of the folders of a folder list
FolderIdsOf(fs) == {fs[i].id : i \in 1..Len(fs)}

\* addFolder: push { id, name, parent } with a fresh time-based id
addFolder(fs, id, name, parent) == Append(fs, [id |-> id, name |-> name, parent |-> parent])

\* removeFolder: folders.filter(f => f.id !== id)
RECURSIVE removeFolder(_, _)
removeFolder(fs, id) ==
    IF fs = <<>> THEN <<>>
    ELSE (IF Head(fs).id # id THEN <<Head(fs)>> ELSE <<>>) \o removeFolder(Tail(fs), id)

\* the rename popup of a folder: folders[idx].name = name, idx the first folder with the id
renameFolder(fs, id, name) ==
    IF id \in FolderIdsOf(fs)
    THEN [fs EXCEPT ![CHOOSE i \in 1..Len(fs) : fs[i].id = id /\ \A j \in 1..(i - 1) : fs[j].id # id].name = name]
    ELSE fs

\* the folder ids a record mentions: of folders, as parents, in the lists of the map
MentionedFolderIds(fs, m) ==
    FolderIdsOf(fs) \cup {fs[i].parent : i \in 1..Len(fs)}
        \cup UNION {Range(m[i].ids) : i \in 1..Len(m)}

\* 'folder_' + Date.now() + '_' + random: an id that no folder has and nothing mentions
HasFreshFolderId(fs, m) == \E k \in 1..Len(FolderIds) : FolderIds[k] \notin MentionedFolderIds(fs, m)
FreshFolderId(fs, m) ==
    FolderIds[CHOOSE k \in 1..Len(FolderIds) :
                 /\ FolderIds[k] \notin MentionedFolderIds(fs, m)
                 /\ \A j \in 1..(k - 1) : FolderIds[j] \in MentionedFolderIds(fs, m)]

\* ------------------------------------------------------------------------
\* Folder tree (buildFolderTree)
\* ------------------------------------------------------------------------
\* idToNode[id]: the index of the last folder with the id
NodeIndex(fs, id) == CHOOSE i \in 1..Len(fs) : fs[i].id = id /\ \A j \in (i + 1)..Len(fs) : fs[j].id # id

\* a root test that takes only a null parent for a root
IsRootNullOnly(fs, f) == f.parent = Null

\* !(folder.parent && idToNode[folder.parent]): the folder is pushed to roots
IsRoot(fs, f) == f.parent = Null \/ f.parent = "" \/ f.parent \notin FolderIdsOf(fs)

\* the indices i, in order, of a sequence that satisfy a test given as a set
RECURSIVE IndicesIn(_, _)
IndicesIn(n, set) ==
    IF n = 0 THEN <<>>
    ELSE IndicesIn(n - 1, set) \o (IF n \in set THEN <<n>> ELSE <<>>)

\* the node of the folder at index i with its children, depth levels deep
RECURSIVE FolderNode(_, _, _)
FolderNode(fs, i, depth) ==
    LET kids == IndicesIn(Len(fs), {k \in 1..Len(fs) : ~IsRoot(fs, fs[k]) /\ fs[k].parent = fs[i].id
                                                          /\ NodeIndex(fs, fs[k].parent) = i})
    IN  [id |-> fs[i].id, name |-> fs[i].name, parent |-> fs[i].parent,
         children |-> IF depth = 0 THEN <<>>
                      ELSE [k \in 1..Len(kids) |-> FolderNode(fs, NodeIndex(fs, fs[kids[k]].id), depth - 1)]]

\* buildFolderTree(folders): the roots, each with its subtree
buildFolderTree(fs) ==
    LET roots == IndicesIn(Len(fs), {k \in 1..Len(fs) : IsRoot(fs, fs[k])})
    IN  [k \in 1..Len(roots) |-> FolderNode(fs, NodeIndex(fs, fs[roots[k]].id), Len(fs))]

\* the nodes of a forest with the id of the node they hang under (Null for a root)
RECURSIVE ForestNodes(_, _)
ForestNodes(forest, under) ==
    IF forest = <<>> THEN <<>>
    ELSE <<[id |-> Head(forest).id, under |-> under]>>
         \o ForestNodes(Head(forest).children, Head(forest).id)
         \o ForestNodes(Tail(forest), under)

\* assignChatToFolder without the includes() test
assignChatToFolderNoIncludes(m, chat, folderId) ==
    LET key == ChatKey(chat.characterId, chat.file_name)
        m1 == IF ObjHas(m, key) THEN m ELSE ObjSet(m, key, <<>>)
    IN  ObjSet(m1, key, Append(ObjGet(m1, key), folderId))

\* assignChatToFolder: create the list if missing, push the folder id unless included
assignChatToFolder(m, chat, folderId) ==
    LET key == ChatKey(chat.characterId, chat.file_name)
        m1 == IF ObjHas(m, key) THEN m ELSE ObjSet(m, key, <<>>)
    IN  IF folderId \in Range(ObjGet(m1, key))
        THEN m1
        ELSE ObjSet(m1, key, Append(ObjGet(m1, key), folderId))

\* ids.filter(id => id !== folderId)
RECURSIVE WithoutFolder(_, _)
WithoutFolder(ids, folderId) ==
    IF ids = <<>> THEN <<>>
    ELSE (IF Head(ids) # folderId THEN <<Head(ids)>> ELSE <<>>) \o WithoutFolder(Tail(ids), folderId)

\* removeChatFromFolder that keeps the key of an emptied list
removeChatFromFolderKeepEmpty(m, chat, folderId) ==
    LET key == ChatKey(chat.characterId, chat.file_name)
    IN  IF ObjHas(m, key) THEN ObjSet(m, key, WithoutFolder(ObjGet(m, key), folderId)) ELSE m

\* removeChatFromFolder: filter the list, delete the key when the list is empty
removeChatFromFolder(m, chat, folderId) ==
    LET key == ChatKey(chat.characterId, chat.file_name)
    IN  IF ObjHas(m, key)
        THEN LET ids == WithoutFolder(ObjGet(m, key), folderId)
             IN  IF Len(ids) = 0 THEN ObjDelete(m, key) ELSE ObjSet(m, key, ids)
        ELSE m

\* ------------------------------------------------------------------------
\* The stored record and defaultSettings (getSettings)
\* ------------------------------------------------------------------------
\* the fields of the stored record that hold the organization
FieldNames == {"pinnedChats", "folders", "chatFolders"}

\* defaultSettings as the module creates it
EmptySettings == [pinnedChats |-> <<>>, folders |-> <<>>, chatFolders |-> <<>>]

\* ------------------------------------------------------------------------
\* Chat rename (handleChatRename)
\* ------------------------------------------------------------------------
\* pinned.map(...): the entries of the chat get the new file name
RenamePinned(p, chat, newName) ==
    [i \in 1..Len(p) |->
        IF p[i].file_name = chat.file_name /\ p[i].characterId = chat.characterId
        THEN [p[i] EXCEPT !.file_name = newName]
        ELSE p[i]]

\* the map after a rename that copies the list and keeps the old key
RenameMapKeepOld(m, chat, newName) ==
    LET oldKey == ChatKey(chat.characterId, chat.file_name)
        newKey == ChatKey(chat.characterId, newName)
    IN  IF ObjHas(m, oldKey) THEN ObjSet(m, newKey, ObjGet(m, oldKey)) ELSE m

\* if (map[oldKey]) { map[newKey] = map[oldKey]; delete map[oldKey] }
RenameMap(m, chat, newName) ==
    LET oldKey == ChatKey(chat.characterId, chat.file_name)
        newKey == ChatKey(chat.characterId, newName)
    IN  IF ObjHas(m, oldKey) THEN ObjDelete(ObjSet(m, newKey, ObjGet(m, oldKey)), oldKey) ELSE m

\* ------------------------------------------------------------------------
\* Reconciliation: remap
\* ------------------------------------------------------------------------
\* the empty chatFileToCharacterId
EmptyGt == [f \in {} |-> <<>>]

\* for (const chatName of chats) chatFileToCharacterId[chatName] = charId
GtWith(gt, chats, charId) ==
    [f \in (DOMAIN gt) \cup chats |-> IF f \in chats THEN charId ELSE gt[f]]

\* the pinned.map callback with === in place of !==
RemapPinnedEntrySameId(p, gt) ==
    IF p.file_name \in DOMAIN gt /\ gt[p.file_name] = p.characterId
    THEN [p EXCEPT !.characterId = gt[p.file_name]]
    ELSE p

\* the pinned.map callback: rewrite the id when the file is found under another id
RemapPinnedEntry(p, gt) ==
    IF p.file_name \in DOMAIN gt /\ gt[p.file_name] # p.characterId
    THEN [p EXCEPT !.characterId = gt[p.file_name]]
    ELSE p

\* the remap of a list read before the newest entry was pushed
RemapPinnedBeforePush(p, gt) == [i \in 1..(Len(p) - 1) |-> RemapPinnedEntry(p[i], gt)]

\* pinned.map(...)
RemapPinned(p, gt) == [i \in 1..Len(p) |-> RemapPinnedEntry(p[i], gt)]

\* pinnedChanged
PinnedChanged(p, gt) ==
    \E i \in 1..Len(p) : p[i].file_name \in DOMAIN gt /\ gt[p[i].file_name] # p[i].characterId

\* the loop over Object.entries(map) from entry i on; acc is newMap
RECURSIVE RemapMapFrom(_, _, _, _, _)
RemapMapFrom(m, i, acc, gt, chars) ==
    IF i > Len(m) THEN acc
    ELSE LET key == m[i].key
             fileName == KeyFileName(key)
             charId == KeyCharId(key)
             next == IF fileName \in DOMAIN gt
                     THEN ObjSet(acc, ChatKey(gt[fileName], fileName), m[i].ids)
                     ELSE IF HasCharacter(chars, charId)
                          THEN ObjSet(acc, key, m[i].ids)
                          ELSE acc
         IN  RemapMapFrom(m, i + 1, next, gt, chars)

\* newMap
RemapMap(m, gt, chars) == RemapMapFrom(m, 1, <<>>, gt, chars)

\* ------------------------------------------------------------------------
\* Reconciliation: prune
\* ------------------------------------------------------------------------
\* pinned.filter(p => p.characterId !== characterId)
RECURSIVE PrunePinned(_, _)
PrunePinned(p, characterId) ==
    IF p = <<>> THEN <<>>
    ELSE (IF Head(p).characterId # characterId THEN <<Head(p)>> ELSE <<>>) \o PrunePinned(Tail(p), characterId)

\* the remap always taking the map as changed
FoldersChangedAlways(m, gt) == Len(m) >= 0

\* foldersChanged: some entry's corrected key differs from its key
FoldersChanged(m, gt) ==
    \E i \in 1..Len(m) :
        /\ KeyFileName(m[i].key) \in DOMAIN gt
        /\ ChatKey(gt[KeyFileName(m[i].key)], KeyFileName(m[i].key)) # m[i].key

\* the fields the remap saves: if (pinnedChanged) setPinnedChats, if (foldersChanged) setChatFoldersMap
RemapSaved(p, m, gt) ==
    (IF PinnedChanged(p, gt) THEN {"pinnedChats"} ELSE {})
        \cup (IF FoldersChanged(m, gt) THEN {"chatFolders"} ELSE {})

\* updatesMade: the remap asks for the refresh of the views
UpdatesMade(p, m, gt) == PinnedChanged(p, gt) \/ FoldersChanged(m, gt)

\* the prune loop comparing the whole key with the deleted id
RECURSIVE PruneMapWholeKey(_, _)
PruneMapWholeKey(m, characterId) ==
    IF m = <<>> THEN <<>>
    ELSE (IF Head(m).key # characterId THEN <<Head(m)>> ELSE <<>>) \o PruneMapWholeKey(Tail(m), characterId)

\* the loop over Object.entries(map): keep the keys of the other owners
RECURSIVE PruneMap(_, _)
PruneMap(m, characterId) ==
    IF m = <<>> THEN <<>>
    ELSE (IF KeyOwner(Head(m).key) # characterId THEN <<Head(m)>> ELSE <<>>) \o PruneMap(Tail(m), characterId)

\* ------------------------------------------------------------------------
\* Chat data fetching
\* ------------------------------------------------------------------------
\* the order in which the server lists chat files
FileOrder == <<<<"x">>, <<"y">>>>

\* the file name the server reports for a chat
ServerFileName(f) == f \o <<".jsonl">>

\* String(x.file_name).replace('.jsonl', ''): drop the first occurrence
StripJsonl(s) ==
    IF \E i \in 1..Len(s) : s[i] = ".jsonl"
    THEN LET i == CHOOSE k \in 1..Len(s) : s[k] = ".jsonl" /\ \A j \in 1..(k - 1) : s[j] # ".jsonl"
         IN  SubSeq(s, 1, i - 1) \o SubSeq(s, i + 1, Len(s))
    ELSE s

\* the server's answer for a set of chat files, in the server's order
RECURSIVE ServerList(_, _)
ServerList(files, i) ==
    IF i > Len(FileOrder) THEN <<>>
    ELSE (IF FileOrder[i] \in files THEN <<ServerFileName(FileOrder[i])>> ELSE <<>>)
         \o ServerList(files, i + 1)

\* getListOfCharacterChats: the stripped file names, [] when the fetch fails
getListOfCharacterChats(ok, files) ==
    IF ok
    THEN [i \in 1..Len(ServerList(files, 1)) |-> StripJsonl(ServerList(files, 1)[i])]
    ELSE <<>>

\* char.name of a character card
CharName(avatar) == IF avatar = <<"a">> THEN <<"A">> ELSE <<"B">>

\* the chatListPromises callback: one chat record per listed file name
CharacterChatList(charId, avatar, names) ==
    [i \in 1..Len(names) |->
        [character |-> CharName(avatar), avatar |-> avatar, file_name |-> names[i], characterId |-> charId]]

\* chatLists.flat(), from entry i on; ok is the set of indices whose fetch succeeded
RECURSIVE FlatChatLists(_, _, _, _)
FlatChatLists(entries, i, ok, hc) ==
    IF i > Len(entries) THEN <<>>
    ELSE CharacterChatList(charIdOf(i), entries[i], getListOfCharacterChats(i \in ok, hc[entries[i]]))
         \o FlatChatLists(entries, i + 1, ok, hc)

\* ------------------------------------------------------------------------
\* Chat aggregation (populateAllChatsTab)
\* ------------------------------------------------------------------------
\* the page size of the recent list (MAX_RECENT_CHATS is 100 in the source; the
\* model has at most four chats)
MAX_RECENT_CHATS == 2

\* the filter strings typed by the user
Filters == {<<>>, <<"x">>, <<"B">>}

\* stat.mes, the snippet of the last message
Snippet == <<"h", "i">>

\* a chat without a stats record
NoStat == [file_name |-> <<>>, last_mes |-> "", mes |-> <<>>]

\* no cache
NoCache == [set |-> FALSE, allChats |-> <<>>, chatStatsMap |-> <<>>]

\* the arguments of no call
NoArgs == [filter |-> <<>>, offset |-> 0, append |-> FALSE, session |-> FALSE]

\* String.prototype.toLowerCase
ToLower(s) == [i \in 1..Len(s) |-> IF s[i] = "A" THEN "a" ELSE IF s[i] = "B" THEN "b" ELSE s[i]]

\* String.prototype.includes
Includes(s, sub) ==
    \E i \in 0..Len(s) : i + Len(sub) <= Len(s) /\ SubSeq(s, i + 1, i + Len(sub)) = sub

\* timestampToMoment(raw).isValid() and toDate(): the date, 0 when invalid
ParseMoment(raw) ==
    IF raw = "t1" THEN 1 ELSE IF raw = "t2" THEN 2 ELSE IF raw = "t3" THEN 3 ELSE 0

\* timestampToMoment(raw).toDate() without the validity test: an invalid Date object is truthy
InvalidDate == -1
ToDate(raw) == IF ParseMoment(raw) = 0 THEN InvalidDate ELSE ParseMoment(raw)

\* the index of a character id
IndexOfCharId(charId) == CHOOSE i \in 1..Len(Digits) : charIdOf(i) = charId

\* host: getPastCharacterChats(charId), the stats records of the character now at charId
RECURSIVE HostStatsList(_, _, _, _)
HostStatsList(avatar, hs, hc, i) ==
    IF i > Len(FileOrder) THEN <<>>
    ELSE (IF FileOrder[i] \in hc[avatar]
          THEN <<[file_name |-> ServerFileName(FileOrder[i]), last_mes |-> hs[avatar][FileOrder[i]],
                  mes |-> Snippet]>>
          ELSE <<>>) \o HostStatsList(avatar, hs, hc, i + 1)

\* the statsPromises callback without its catch
StatsPromiseNoCatch(ok, charId, statsList) ==
    IF ok
    THEN [raised |-> FALSE,
          entries |-> [i \in 1..Len(statsList) |->
                          [key |-> ChatKey(charId, StripJsonl(statsList[i].file_name)), stat |-> statsList[i]]]]
    ELSE [raised |-> TRUE, entries |-> <<>>]

\* the statsPromises callback: [charId + ':' + fileName, stat] per record, [] when the fetch throws
StatsPromise(ok, charId, statsList) ==
    IF ok
    THEN [raised |-> FALSE,
          entries |-> [i \in 1..Len(statsList) |->
                          [key |-> ChatKey(charId, StripJsonl(statsList[i].file_name)), stat |-> statsList[i]]]]
    ELSE [raised |-> FALSE, entries |-> <<>>]

\* [...new Set(allChats.map(chat => chat.characterId))], in order of first occurrence
RECURSIVE UniqueCharacterIds(_)
UniqueCharacterIds(chats) ==
    IF chats = <<>> THEN <<>>
    ELSE LET init == UniqueCharacterIds(SubSeq(chats, 1, Len(chats) - 1))
             id == chats[Len(chats)].characterId
         IN  IF id \in Range(init) THEN init ELSE Append(init, id)

\* (await Promise.all(statsPromises)).flat(), from id i on; ok is the set of ids whose fetch succeeded
RECURSIVE FlatStats(_, _, _, _, _, _)
FlatStats(ids, i, ok, chars, hs, hc) ==
    IF i > Len(ids) THEN [raised |-> FALSE, entries |-> <<>>]
    ELSE LET found == ids[i] \in ok /\ HasCharacter(chars, ids[i])
             list == IF found THEN HostStatsList(chars[IndexOfCharId(ids[i])], hs, hc, 1) ELSE <<>>
             head == StatsPromise(found, ids[i], list)
             rest == FlatStats(ids, i + 1, ok, chars, hs, hc)
         IN  [raised |-> head.raised \/ rest.raised, entries |-> head.entries \o rest.entries]

\* chatStatsMap[key]: Object.fromEntries keeps the last entry of a key
StatOf(entries, key) ==
    IF \E i \in 1..Len(entries) : entries[i].key = key
    THEN entries[CHOOSE i \in 1..Len(entries) :
                    entries[i].key = key /\ \A j \in (i + 1)..Len(entries) : entries[j].key # key].stat
    ELSE NoStat

\* the join callback: { ...chat, stat, last_mes }
JoinChat(chat, entries) ==
    LET stat == StatOf(entries, ChatKey(chat.characterId, chat.file_name))
        lastMesRaw == IF stat # NoStat /\ stat.last_mes # "" THEN stat.last_mes ELSE ""
    IN  [character |-> chat.character, avatar |-> chat.avatar, file_name |-> chat.file_name,
         characterId |-> chat.characterId, stat |-> stat,
         last_mes |-> IF lastMesRaw # "" THEN ParseMoment(lastMesRaw) ELSE 0]

\* allChats.map(join).filter(chat => chat.last_mes)
RECURSIVE JoinDated(_, _)
JoinDated(chats, entries) ==
    IF chats = <<>> THEN <<>>
    ELSE (IF JoinChat(Head(chats), entries).last_mes # 0 THEN <<JoinChat(Head(chats), entries)>> ELSE <<>>)
         \o JoinDated(Tail(chats), entries)

\* insert x behind every element that is not older (stable)
RECURSIVE InsertByDate(_, _)
InsertByDate(sorted, x) ==
    IF sorted = <<>> THEN <<x>>
    ELSE IF Head(sorted).last_mes >= x.last_mes
         THEN <<Head(sorted)>> \o InsertByDate(Tail(sorted), x)
         ELSE <<x>> \o sorted

\* allChats.sort((a, b) => b.last_mes - a.last_mes)
RECURSIVE SortByDate(_)
SortByDate(chats) ==
    IF chats = <<>> THEN <<>>
    ELSE InsertByDate(SortByDate(SubSeq(chats, 1, Len(chats) - 1)), chats[Len(chats)])

\* chatMatches: the filter, lowercased, is part of the character name, the file name or the snippet
chatMatches(chat, filter) ==
    LET filterLower == ToLower(filter)
    IN  \/ filterLower = <<>>
        \/ (chat.character # <<>> /\ Includes(ToLower(chat.character), filterLower))
        \/ (chat.file_name # <<>> /\ Includes(ToLower(chat.file_name), filterLower))
        \/ (chat.stat # NoStat /\ chat.stat.mes # <<>> /\ Includes(ToLower(chat.stat.mes), filterLower))

\* allChats.filter(chatMatches)
RECURSIVE FilterChats(_, _)
FilterChats(chats, filter) ==
    IF chats = <<>> THEN <<>>
    ELSE (IF chatMatches(Head(chats), filter) THEN <<Head(chats)>> ELSE <<>>)
         \o FilterChats(Tail(chats), filter)

\* a page that starts one item late
SliceFromNext(s, from, to) == SubSeq(s, from + 2, Min(to, Len(s)))

\* Array.prototype.slice(from, to), 0 <= from <= to
Slice(s, from, to) == SubSeq(s, from + 1, Min(to, Len(s)))

\* the pinned section: each pinned entry with its joined record, or a fallback record
PinnedRecord(p, dated, entries, chars) ==
    LET stat == StatOf(entries, ChatKey(p.characterId, p.file_name))
    IN  IF \E i \in 1..Len(dated) : dated[i].characterId = p.characterId /\ dated[i].file_name = p.file_name
        THEN LET c == dated[CHOOSE i \in 1..Len(dated) :
                              /\ dated[i].characterId = p.characterId /\ dated[i].file_name = p.file_name
                              /\ \A j \in 1..(i - 1) :
                                    ~(dated[j].characterId = p.characterId /\ dated[j].file_name = p.file_name)]
             IN  [c EXCEPT !.stat = stat]
        ELSE [character |-> IF HasCharacter(chars, p.characterId)
                            THEN CharName(chars[IndexOfCharId(p.characterId)])
                            ELSE p.characterId,
              avatar |-> IF HasCharacter(chars, p.characterId)
                         THEN chars[IndexOfCharId(p.characterId)] ELSE <<>>,
              file_name |-> p.file_name, characterId |-> p.characterId, stat |-> stat,
              last_mes |-> IF stat # NoStat /\ stat.last_mes # "" THEN ToDate(stat.last_mes) ELSE 0]

\* pinnedChatsRaw.map(...).filter(chat => chat && chat.last_mes && chatMatches(chat))
RECURSIVE PinnedShown(_, _, _, _, _)
PinnedShown(p, dated, entries, chars, filter) ==
    IF p = <<>> THEN <<>>
    ELSE LET c == PinnedRecord(Head(p), dated, entries, chars)
         IN  (IF c.last_mes # 0 /\ chatMatches(c, filter) THEN <<c>> ELSE <<>>)
             \o PinnedShown(Tail(p), dated, entries, chars, filter)

\* the order of the characters in strings
Alphabet == <<"0", "1", "2", "3", "4", "5", "6", "7", "8", "9", ":", "a", "b", "g", "h", "i", "x", "y">>
RankOf(ch) == CHOOSE i \in 1..Len(Alphabet) : Alphabet[i] = ch

\* a < b on strings
RECURSIVE StrLess(_, _)
StrLess(a, b) ==
    IF b = <<>> THEN FALSE
    ELSE IF a = <<>> THEN TRUE
    ELSE IF Head(a) = Head(b) THEN StrLess(Tail(a), Tail(b))
    ELSE RankOf(Head(a)) < RankOf(Head(b))

\* the comparator of pinnedChats.sort: by character, then by file_name
PinnedBefore(a, b) ==
    \/ StrLess(ToLower(a.character), ToLower(b.character))
    \/ /\ ToLower(a.character) = ToLower(b.character)
       /\ StrLess(ToLower(a.file_name), ToLower(b.file_name))

RECURSIVE InsertPinned(_, _)
InsertPinned(sorted, x) ==
    IF sorted = <<>> THEN <<x>>
    ELSE IF PinnedBefore(x, Head(sorted)) THEN <<x>> \o sorted
    ELSE <<Head(sorted)>> \o InsertPinned(Tail(sorted), x)

\* pinnedChats.sort(...)
RECURSIVE SortPinned(_)
SortPinned(chats) ==
    IF chats = <<>> THEN <<>>
    ELSE InsertPinned(SortPinned(SubSeq(chats, 1, Len(chats) - 1)), chats[Len(chats)])

\* renderAllChatsTabItem: the item of a chat in a section of the container
Items(chats, section) ==
    [i \in 1..Len(chats) |->
        [section |-> section, characterId |-> chats[i].characterId, file_name |-> chats[i].file_name]]

\* the part of populateAllChatsTab behind the fetches
PassResult(all, entries, arg, p, chars) ==
    LET dated == SortByDate(JoinDated(all, entries))
        filteredChats == FilterChats(dated, arg.filter)
        chatsToShow == Slice(filteredChats, arg.offset, arg.offset + MAX_RECENT_CHATS)
        pinnedChats == SortPinned(PinnedShown(p, dated, entries, chars, arg.filter))
    IN  [dated |-> dated, filtered |-> filteredChats, shown |-> chatsToShow, pinned |-> pinnedChats,
         totalChats |-> Len(filteredChats)]

\* ------------------------------------------------------------------------
\* Host
\* ------------------------------------------------------------------------
\* the character arrays the host may hold: distinct cards, at most MaxChars
AllDirs ==
    {d \in UNION {[1..n -> Avatars] : n \in 0..MaxChars} :
        \A i, j \in 1..Len(d) : d[i] = d[j] => i = j}

\* the chats a view lists: every chat file of every character, by array index, and of every group
ListedChats(chars, hc) ==
    {c \in [characterId : CharIdsOf(chars), file_name : Files] :
        \E i \in 1..Len(chars) : charIdOf(i) = c.characterId /\ c.file_name \in hc[chars[i]]}
    \cup {c \in [characterId : Groups, file_name : Files] : c.file_name \in hc[c.characterId]}

\* the slots of concurrently scheduled remaps
RemapSlots == {1, 2}

\* the slots of concurrent refreshFoldersTab calls
RefreshSlots == {1, 2}

\* the slots of concurrent populateAllChatsTab calls
PassSlots == {1, 2}

\* ------------------------------------------------------------------------
\* History of the last data-model operation
\* ------------------------------------------------------------------------
Last(op, p, fs, m, gt, chars, chat, folderId) ==
    [op |-> op, pinned |-> p, folders |-> fs, map |-> m, gt |-> gt, chars |-> chars,
     chat |-> chat, folderId |-> folderId]

NoOp == Last("none", <<>>, <<>>, <<>>, EmptyGt, <<>>, Chat(<<>>, <<>>), "")

\* the user operation on pins or assignments that was the last step before a remap or a
\* prune wrote, made while that remap or prune was pending: its name, chat and folder, and
\* whether the chat was pinned before it
NoDuring == [op |-> "none", chat |-> Chat(<<>>, <<>>), folderId |-> "", was |-> FALSE]
During(l) ==
    IF l.op \in {"togglePin", "assign", "unassign"}
    THEN [op |-> l.op, chat |-> l.chat, folderId |-> l.folderId, was |-> isChatPinned(l.pinned, l.chat)]
    ELSE NoDuring

\* the history of a remap or a prune: the state found and the user operation made just before
LastReconcile(op, p, fs, m, gt, chars, chat, prev, saved, updatesMade, clean) ==
    [op |-> op, pinned |-> p, folders |-> fs, map |-> m, gt |-> gt, chars |-> chars,
     chat |-> chat, folderId |-> "", during |-> During(prev),
     saved |-> saved, updatesMade |-> updatesMade,
     again |-> (op = "remap" /\ prev.op = "remap" /\ prev.gt = gt /\ prev.chars = chars),
     firstSaved |-> IF op = "remap" /\ prev.op = "remap" THEN prev.saved ELSE {},
     clean |-> clean, afterClean |-> (op = "remap" /\ prev.op = "remap" /\ prev.clean)]

\* the history of a chat rename: the state found, the chat and its new name
LastRename(p, fs, m, chars, chat, newName) ==
    [op |-> "rename", pinned |-> p, folders |-> fs, map |-> m, gt |-> EmptyGt, chars |-> chars,
     chat |-> chat, folderId |-> "", newName |-> newName]

\* no completed populateAllChatsTab call
NoPass ==
    [done |-> FALSE, raised |-> FALSE, cached |-> FALSE, dirty |-> FALSE, arg |-> NoArgs,
     entries |-> <<>>, listOk |-> {}, statsOk |-> {}, dated |-> <<>>, filtered |-> <<>>,
     shown |-> <<>>, pinned |-> <<>>, totalChats |-> 0, pinnedRaw |-> <<>>, stats |-> <<>>,
     chars |-> <<>>, stale |-> FALSE]

\* no mutation's refresh request was dropped since the refresh in flight began
NoPending == [set |-> FALSE, folders |-> <<>>, map |-> <<>>]

\* no createBackup call yet
NoBackup == [op |-> "none", result |-> TRUE, uploaded |-> TRUE, versions |-> <<>>, files |-> {}]

\* ------------------------------------------------------------------------
\* Initial state
\* ------------------------------------------------------------------------
InitModule ==
    /\ characters = <<<<"a">>, <<"b">>>>
    /\ pinned = <<>>
    /\ folders = <<>>
    /\ chatFolders = <<>>
    /\ rpc = [r \in RemapSlots |-> "idle"]
    /\ rentries = [r \in RemapSlots |-> <<>>]
    /\ ridx = [r \in RemapSlots |-> 0]
    /\ rgt = [r \in RemapSlots |-> EmptyGt]
    /\ rDirty = [r \in RemapSlots |-> FALSE]
    /\ pruneTimers = {}
    /\ last = NoOp
    /\ backupVersions = <<>>
    /\ serverFiles = {}
    /\ today = 1
    /\ uploads = 0
    /\ backupLast = NoBackup
    /\ isRefreshingFoldersTab = FALSE
    /\ rfpc = [c \in RefreshSlots |-> "idle"]
    /\ rfentries = [c \in RefreshSlots |-> <<>>]
    /\ rfAllChats = [c \in RefreshSlots |-> <<>>]
    /\ rfLast = [call |-> 0, outcome |-> "none", pending |-> NoPending, allChats |-> <<>>, view |-> <<>>]
    /\ rfEnded = {}
    /\ viewOpen = FALSE
    /\ lastFilter = <<>>
    /\ lastChatsData = NoCache
    /\ offset = 0
    /\ totalChats = 0
    /\ loadMoreHidden = TRUE
    /\ container = <<>>
    /\ apc = [s \in PassSlots |-> "idle"]
    /\ aarg = [s \in PassSlots |-> NoArgs]
    /\ aentries = [s \in PassSlots |-> <<>>]
    /\ aAllChats = [s \in PassSlots |-> <<>>]
    /\ aListOk = [s \in PassSlots |-> {}]
    /\ aDirty = [s \in PassSlots |-> FALSE]
    /\ passLast = NoPass
    /\ defaultSettings = EmptySettings
    /\ aliased = {}
    /\ shape = [k \in FieldNames |-> "ok"]
    /\ recordNull = FALSE
    /\ threw = FALSE
    /\ cacheStale = FALSE

\* the host of the reconciliation specifications: a file name shared by two
\* characters, one shared by a character and a group
InitData ==
    /\ InitModule
    /\ hostChats = [o \in Avatars \cup Groups |->
                        IF o = <<"a">> THEN {<<"x">>}
                        ELSE IF o = <<"b">> THEN {<<"x">>, <<"y">>}
                        ELSE {<<"y">>}]
    /\ hostStats = [o \in Avatars |-> [f \in Files |-> "t1"]]

\* the host of the aggregation specification: four chats, two with the same
\* date, one whose date is valid, unparseable or missing
InitAgg ==
    /\ InitModule
    /\ hostChats = [o \in Avatars \cup Groups |-> IF o \in Avatars THEN Files ELSE {}]
    /\ \E raw \in {"t1", "bad", ""} :
          hostStats = [o \in Avatars |->
                          IF o = <<"a">> THEN [f \in Files |-> IF f = <<"x">> THEN "t2" ELSE "t3"]
                          ELSE [f \in Files |-> IF f = <<"x">> THEN "t2" ELSE raw]]

remapVars == <<rpc, rentries, ridx, rgt, rDirty>>
hostVars == <<characters, hostChats, backupVars>>

\* ------------------------------------------------------------------------
\* User actions on the data model
\* ------------------------------------------------------------------------
\* what a completed operation does to defaultSettings and to the sharing of objects: a field
\* in inPlace was changed in the object the accessor returned (push, splice, property write) and
\* stored again, so a shared default changed with it; a field in replaced was set to a new
\* object, so it is shared no longer. getSettings has run, so the record is not null.
SettleRecord(inPlace, replaced) ==
    /\ defaultSettings' =
          [pinnedChats |-> IF "pinnedChats" \in inPlace \cap aliased THEN pinned' ELSE defaultSettings.pinnedChats,
           folders |-> IF "folders" \in inPlace \cap aliased THEN folders' ELSE defaultSettings.folders,
           chatFolders |-> IF "chatFolders" \in inPlace \cap aliased THEN chatFolders'
                           ELSE defaultSettings.chatFolders]
    /\ aliased' = aliased \ replaced
    /\ shape' = [k \in FieldNames |-> IF k \in inPlace \cup replaced THEN "ok" ELSE shape[k]]
    /\ recordNull' = FALSE
    /\ threw' = FALSE

\* a completed operation: the record and defaultSettings, and the cache of the recent view,
\* which is older than the data once the pinned list or the assignment map changed
Settle(inPlace, replaced) ==
    /\ SettleRecord(inPlace, replaced)
    /\ cacheStale' = (cacheStale \/ (lastChatsData.set
                                       /\ (inPlace \cup replaced) \cap {"pinnedChats", "chatFolders"} # {}))

\* getPinnedChats(): whether the value returned is an array. A missing or null field gives
\* [], a string is returned as it is (getSettings().pinnedChats || []).
PinnedIsArray == shape.pinnedChats # "wrong"

\* getFolders(): whether the value returned is an array. The loop over a string throws at
\* 'parent' in folder and the catch returns [].
FoldersIsArray == TRUE

\* getChatFoldersMap(): whether the value returned is an object; a string is returned as it is
MapIsObject == shape.chatFolders # "wrong"

\* an operation throws a TypeError: nothing is stored
Raise(op, chat, folderId) ==
    /\ last' = Last(op, pinned, folders, chatFolders, EmptyGt, characters, chat, folderId)
    /\ threw' = TRUE
    /\ UNCHANGED <<pinned, folders, chatFolders, hostVars, remapVars, pruneTimers, refreshVars, aggVars,
                   defaultSettings, aliased, shape, recordNull, cacheStale>>

\* isChatPinned(chat), as the item renderer calls it: pinned.some is no function of a string
IsChatPinnedCall(chat) ==
    IF ~PinnedIsArray
    THEN Raise("isChatPinned", chat, "")
    ELSE /\ last' = Last("isChatPinned", pinned, folders, chatFolders, EmptyGt, characters, chat, "")
         /\ threw' = FALSE
         /\ UNCHANGED <<pinned, folders, chatFolders, hostVars, remapVars, pruneTimers, refreshVars,
                        aggVars, defaultSettings, aliased, shape, recordNull, cacheStale>>

\* pin button: togglePinChat(chat); pinned.findIndex is no function of a string
TogglePin(chat) ==
    IF ~PinnedIsArray
    THEN Raise("togglePinChat", chat, "")
    ELSE /\ isChatPinned(pinned, chat) \/ Len(pinned) < MaxPinned
         /\ pinned' = togglePinChat(pinned, chat)
         /\ last' = Last("togglePin", pinned, folders, chatFolders, EmptyGt, characters, chat, "")
         /\ Settle({"pinnedChats"}, {})
         /\ UNCHANGED <<folders, hostVars, chatFolders, remapVars, pruneTimers, refreshVars, aggVars>>

\* add-folder dialog: addFolder(name, selectedFolderId)
AddFolder(name, parent) ==
    /\ Len(folders) < MaxFolders
    /\ parent \in {Null} \cup FolderIdsOf(folders)
    /\ HasFreshFolderId(folders, chatFolders)
    /\ folders' = addFolder(folders, FreshFolderId(folders, chatFolders), name, parent)
    /\ last' = NoOp
    /\ Settle({"folders"}, {})
    /\ UNCHANGED <<hostVars, pinned, chatFolders, remapVars, pruneTimers, refreshVars, aggVars>>

\* remove button of a folder, confirmed: removeFolder(folder.id)
RemoveFolder(id) ==
    /\ id \in FolderIdsOf(folders)
    /\ folders' = removeFolder(folders, id)
    /\ last' = Last("removeFolder", pinned, folders, chatFolders, EmptyGt, characters, Chat(<<>>, <<>>), id)
    /\ Settle({}, {"folders"})
    /\ UNCHANGED <<hostVars, pinned, chatFolders, remapVars, pruneTimers, refreshVars, aggVars>>

\* rename popup of a folder, confirmed with a new name
RenameFolder(id, name) ==
    /\ id \in FolderIdsOf(folders)
    /\ \E i \in 1..Len(folders) : folders[i].id = id /\ folders[i].name # name
    /\ folders' = renameFolder(folders, id, name)
    /\ last' = NoOp
    /\ Settle({"folders"}, {})
    /\ UNCHANGED <<hostVars, pinned, chatFolders, remapVars, pruneTimers, refreshVars, aggVars>>

\* folder picker: assignChatToFolder(chat, folderId)
\* map[key] = [] on a string throws in the module's strict mode
Assign(chat, folderId) ==
    /\ folderId \in FolderIdsOf(folders)
    /\ IF ~MapIsObject
       THEN Raise("assign", chat, folderId)
       ELSE /\ IF ObjHas(chatFolders, ChatKey(chat.characterId, chat.file_name))
               THEN \/ folderId \in Range(ObjGet(chatFolders, ChatKey(chat.characterId, chat.file_name)))
                    \/ Len(ObjGet(chatFolders, ChatKey(chat.characterId, chat.file_name))) < MaxFoldersPerChat
               ELSE Len(chatFolders) < MaxKeys
            /\ chatFolders' = assignChatToFolder(chatFolders, chat, folderId)
            /\ last' = Last("assign", pinned, folders, chatFolders, EmptyGt, characters, chat, folderId)
            /\ Settle({"chatFolders"}, {})
            /\ UNCHANGED <<folders, hostVars, pinned, remapVars, pruneTimers, refreshVars, aggVars>>

\* remove-from-folder button: removeChatFromFolder(chat, folderId)
\* on a string map[key] is no array: the string is stored again as it is
Unassign(chat, folderId) ==
    /\ ObjHas(chatFolders, ChatKey(chat.characterId, chat.file_name)) \/ ~MapIsObject
    /\ chatFolders' = removeChatFromFolder(chatFolders, chat, folderId)
    /\ last' = Last("unassign", pinned, folders, chatFolders, EmptyGt, characters, chat, folderId)
    /\ Settle(IF MapIsObject THEN {"chatFolders"} ELSE {}, {})
    /\ UNCHANGED <<folders, hostVars, pinned, remapVars, pruneTimers, refreshVars, aggVars>>

\* ------------------------------------------------------------------------
\* Host events
\* ------------------------------------------------------------------------
\* the host rebuilds its character array: indices are reassigned
HostDirectoryChange(d) ==
    /\ d # characters
    /\ characters' = d
    /\ last' = NoOp
    /\ Settle({}, {})
    /\ aDirty' = [s \in PassSlots |-> aDirty[s] \/ apc[s] # "idle"]
    /\ rDirty' = [r \in RemapSlots |-> rDirty[r] \/ rpc[r] = "fetch"]
    /\ UNCHANGED <<folders, hostChats, backupVars, pinned, chatFolders, rpc, rentries, ridx, rgt, pruneTimers,
                   refreshVars, hostStats, viewVars, apc, aarg, aentries, aAllChats, aListOk, passLast>>

\* a handler's setTimeout(() => processCharacterRenameUpdate(...), delay)
ScheduleRemap(r) ==
    /\ rpc[r] = "idle"
    /\ rpc' = [rpc EXCEPT ![r] = "timer"]
    /\ last' = NoOp
    /\ Settle({}, {})
    /\ UNCHANGED <<folders, hostVars, pinned, chatFolders, rentries, ridx, rgt, rDirty, pruneTimers,
                   refreshVars, aggVars>>

\* CHARACTER_RENAMED
handleCharacterRename(r, oldAvatar, newAvatar) ==
    /\ oldAvatar # <<>> /\ newAvatar # <<>>
    /\ ScheduleRemap(r)

\* CHARACTER_DUPLICATED
handleCharacterDuplicated(r) == ScheduleRemap(r)

\* SETTINGS_LOADED_AFTER
handleSettingsReloaded(r) == ScheduleRemap(r)

\* CHARACTER_PAGE_LOADED
handleCharacterPageLoaded(r) == ScheduleRemap(r)

\* the fields the prune saves: the list when its length changed, the map always
PruneSaved(p, characterId) ==
    (IF Len(PrunePinned(p, characterId)) # Len(p) THEN {"pinnedChats"} ELSE {}) \cup {"chatFolders"}

\* CHARACTER_DELETED: schedule the prune of the deleted id
handleCharacterDelete(characterId) ==
    /\ characterId # <<>>
    /\ characterId \notin pruneTimers
    /\ pruneTimers' = pruneTimers \cup {characterId}
    /\ last' = NoOp
    /\ Settle({}, {})
    /\ UNCHANGED <<folders, hostVars, pinned, chatFolders, remapVars, refreshVars, aggVars>>

\* ------------------------------------------------------------------------
\* Reconciliation steps
\* ------------------------------------------------------------------------
\* the synchronous tail of processCharacterRenameUpdate, after the last listing
RemapApply(r, gt, clean) ==
    /\ pinned' = IF PinnedChanged(pinned, gt) THEN RemapPinned(pinned, gt) ELSE pinned
    /\ chatFolders' = IF FoldersChanged(chatFolders, gt)
                      THEN RemapMap(chatFolders, gt, characters)
                      ELSE chatFolders
    /\ last' = LastReconcile("remap", pinned, folders, chatFolders, gt, characters, Chat(<<>>, <<>>), last,
                              RemapSaved(pinned, chatFolders, gt), UpdatesMade(pinned, chatFolders, gt), clean)
    /\ Settle({}, RemapSaved(pinned, chatFolders, gt))
    /\ rpc' = [rpc EXCEPT ![r] = "idle"]
    /\ rentries' = [rentries EXCEPT ![r] = <<>>]
    /\ ridx' = [ridx EXCEPT ![r] = 0]
    /\ rgt' = [rgt EXCEPT ![r] = EmptyGt]
    /\ rDirty' = [rDirty EXCEPT ![r] = FALSE]
    /\ UNCHANGED <<folders, hostVars, pruneTimers, refreshVars, aggVars>>

\* the timer fires: snapshot Object.entries(characters), await the first listing
RemapBegin(r) ==
    /\ rpc[r] = "timer"
    /\ IF Len(characters) = 0
       THEN RemapApply(r, EmptyGt, TRUE)
       ELSE /\ rpc' = [rpc EXCEPT ![r] = "fetch"]
            /\ rentries' = [rentries EXCEPT ![r] = characters]
            /\ ridx' = [ridx EXCEPT ![r] = 1]
            /\ rgt' = [rgt EXCEPT ![r] = EmptyGt]
            /\ rDirty' = [rDirty EXCEPT ![r] = FALSE]
            /\ last' = NoOp
            /\ Settle({}, {})
            /\ UNCHANGED <<folders, hostVars, pinned, chatFolders, pruneTimers, refreshVars, aggVars>>

\* getListOfCharacterChats(char.avatar) returns: the avatar's files, or [] when the fetch failed
RemapListReturn(r, ok) ==
    /\ rpc[r] = "fetch"
    /\ LET chats == Range(getListOfCharacterChats(ok, hostChats[rentries[r][ridx[r]]]))
           gt == GtWith(rgt[r], chats, charIdOf(ridx[r]))
       IN  IF ridx[r] = Len(rentries[r])
           THEN RemapApply(r, gt, ok /\ ~rDirty[r])
           ELSE /\ rgt' = [rgt EXCEPT ![r] = gt]
                /\ rDirty' = [rDirty EXCEPT ![r] = @ \/ ~ok]
                /\ ridx' = [ridx EXCEPT ![r] = ridx[r] + 1]
                /\ last' = NoOp
                /\ Settle({}, {})
                /\ UNCHANGED <<folders, hostVars, pinned, chatFolders, rpc, rentries, pruneTimers, refreshVars, aggVars>>

\* the prune timer of handleCharacterDelete fires
Prune(characterId) ==
    /\ characterId \in pruneTimers
    /\ pruneTimers' = pruneTimers \ {characterId}
    /\ pinned' = PrunePinned(pinned, characterId)
    /\ chatFolders' = PruneMap(chatFolders, characterId)
    /\ last' = LastReconcile("prune", pinned, folders, chatFolders, EmptyGt, characters,
                              Chat(characterId, <<>>), last, PruneSaved(pinned, characterId),
                              pinned' # pinned \/ chatFolders' # chatFolders, FALSE)
    /\ Settle({}, PruneSaved(pinned, characterId))
    /\ UNCHANGED <<folders, hostVars, remapVars, refreshVars, aggVars>>

\* ------------------------------------------------------------------------
\* Folders tab refresh
\* ------------------------------------------------------------------------
\* getChatFolderIds(chat).includes(folderId)
InFolderList(m, chat, folderId) ==
    /\ ObjHas(m, ChatKey(chat.characterId, chat.file_name))
    /\ folderId \in Range(ObjGet(m, ChatKey(chat.characterId, chat.file_name)))

\* the guard that lets every request through
RefreshDroppedNever(latch) == FALSE

\* if (isRefreshingFoldersTab) return
RefreshDropped(latch) == latch

\* the latch after a refresh without finally: released on normal completion only
LatchReleasedOnCompletionOnly(outcome) == outcome # "normal"

\* finally { isRefreshingFoldersTab = false }: the latch after a refresh ended
LatchAfterRefresh(outcome) == FALSE

\* the chats of allChats whose folder list in the map m has the folder id, in their order
RECURSIVE ChatsInFolder(_, _, _)
ChatsInFolder(allChats, m, id) ==
    IF allChats = <<>> THEN <<>>
    ELSE LET chatKey == ChatKey(Head(allChats).characterId, Head(allChats).file_name)
         IN  (IF ObjHas(m, chatKey) /\ id \in Range(ObjGet(m, chatKey)) THEN <<Head(allChats)>> ELSE <<>>)
                 \o ChatsInFolder(Tail(allChats), m, id)

\* the grouping made from the folder list without the folder added last
buildFolderedChatsMapBeforeAdd(allChats, m, fs) ==
    [i \in 1..(Len(fs) - 1) |-> [id |-> fs[i].id, chats |-> ChatsInFolder(allChats, m, fs[i].id)]]

\* buildFolderedChatsMap: one list per folder of getFolders(), holding the chats whose
\* list in getChatFoldersMap() has the folder id
buildFolderedChatsMap(allChats, m, fs) ==
    [i \in 1..Len(fs) |-> [id |-> fs[i].id, chats |-> ChatsInFolder(allChats, m, fs[i].id)]]

\* the refresh ends: the finally block runs, the call's locals are gone; a refresh that
\* completes has built its view from the stored folders and map in the same turn
RefreshEnd(c, outcome) ==
    /\ isRefreshingFoldersTab' = LatchAfterRefresh(outcome)
    /\ rfpc' = [rfpc EXCEPT ![c] = "idle"]
    /\ rfentries' = [rfentries EXCEPT ![c] = <<>>]
    /\ rfAllChats' = [rfAllChats EXCEPT ![c] = <<>>]
    /\ rfLast' = LET pend == IF rfpc[c] = "stats" THEN rfLast.pending ELSE NoPending
                     built == outcome = "normal" /\ pend.set
                 IN  [call |-> c, outcome |-> outcome, pending |-> pend,
                      allChats |-> IF built THEN rfAllChats[c] ELSE <<>>,
                      view |-> IF built THEN buildFolderedChatsMap(rfAllChats[c], chatFolders, folders)
                               ELSE <<>>]
    /\ rfEnded' = rfEnded \cup {outcome}

\* refreshFoldersTab() is called: dropped, or the latch is taken and the run
\* goes up to the await of the chat lists (tab: the tab element exists;
\* throws: a step before the await throws)
\* pend: the stored folders and map when the caller changed them before the call
refreshFoldersTabCall(c, tab, throws, pend) ==
    /\ rfpc[c] = "idle"
    /\ \A c2 \in RefreshSlots : c2 < c => rfpc[c2] # "idle"
    /\ IF RefreshDropped(isRefreshingFoldersTab)
       THEN /\ rfLast' = [call |-> c, outcome |-> "dropped",
                          pending |-> IF pend.set THEN pend ELSE rfLast.pending,
                          allChats |-> <<>>, view |-> <<>>]
            /\ UNCHANGED <<isRefreshingFoldersTab, rfpc, rfentries, rfAllChats, rfEnded>>
       ELSE IF ~tab THEN RefreshEnd(c, "noTab")
       ELSE IF throws THEN RefreshEnd(c, "throw")
       ELSE /\ isRefreshingFoldersTab' = TRUE
            /\ rfpc' = [rfpc EXCEPT ![c] = "lists"]
            /\ rfentries' = [rfentries EXCEPT ![c] = characters]
            /\ rfLast' = [call |-> c, outcome |-> "started", pending |-> NoPending,
                          allChats |-> <<>>, view |-> <<>>]
            /\ UNCHANGED <<rfAllChats, rfEnded>>

\* refreshFoldersTab() called by a caller that changed neither the folders nor the map
RefreshCall(c, tab, throws) ==
    /\ refreshFoldersTabCall(c, tab, throws, NoPending)
    /\ last' = NoOp
    /\ Settle({}, {})
    /\ UNCHANGED <<hostVars, pinned, folders, chatFolders, remapVars, pruneTimers, aggVars>>

\* await Promise.all(chatListPromises) returns; the stats fetches are issued
RefreshListsReturn(c, ok) ==
    /\ rfpc[c] = "lists"
    /\ rfpc' = [rfpc EXCEPT ![c] = "stats"]
    /\ rfAllChats' = [rfAllChats EXCEPT ![c] = FlatChatLists(rfentries[c], 1, ok, hostChats)]
    /\ last' = NoOp
    /\ Settle({}, {})
    /\ UNCHANGED <<hostVars, pinned, folders, chatFolders, remapVars, pruneTimers,
                   isRefreshingFoldersTab, rfentries, rfLast, rfEnded, aggVars>>

\* await Promise.all(statsPromises) returns; the view is built (throws: the
\* rendering throws) and the finally block runs
RefreshStatsReturn(c, throws) ==
    /\ rfpc[c] = "stats"
    /\ RefreshEnd(c, IF throws THEN "throw" ELSE "normal")
    /\ last' = NoOp
    /\ Settle({}, {})
    /\ UNCHANGED <<hostVars, pinned, folders, chatFolders, remapVars, pruneTimers, aggVars>>

\* add-folder button of the folders tab: addFolder(name.trim(), selectedFolderId), then
\* refreshFoldersTab()
AddFolderClick(c, name, parent) ==
    /\ Len(folders) < MaxFolders
    /\ parent \in {Null} \cup FolderIdsOf(folders)
    /\ HasFreshFolderId(folders, chatFolders)
    /\ folders' = addFolder(folders, FreshFolderId(folders, chatFolders), name, parent)
    /\ refreshFoldersTabCall(c, TRUE, FALSE, [set |-> TRUE, folders |-> folders', map |-> chatFolders])
    /\ last' = NoOp
    /\ Settle({"folders"}, {})
    /\ UNCHANGED <<hostVars, pinned, chatFolders, remapVars, pruneTimers, aggVars>>

\* pin button of a chat item, a folder chosen: assignChatToFolder unless included, then
\* refreshFoldersTab()
AssignClick(c, chat, folderId) ==
    /\ folderId \in FolderIdsOf(folders)
    /\ MapIsObject
    /\ IF ObjHas(chatFolders, ChatKey(chat.characterId, chat.file_name))
       THEN \/ folderId \in Range(ObjGet(chatFolders, ChatKey(chat.characterId, chat.file_name)))
            \/ Len(ObjGet(chatFolders, ChatKey(chat.characterId, chat.file_name))) < MaxFoldersPerChat
       ELSE Len(chatFolders) < MaxKeys
    /\ chatFolders' = IF InFolderList(chatFolders, chat, folderId)
                      THEN chatFolders
                      ELSE assignChatToFolder(chatFolders, chat, folderId)
    /\ refreshFoldersTabCall(c, TRUE, FALSE, [set |-> TRUE, folders |-> folders, map |-> chatFolders'])
    /\ last' = Last("assign", pinned, folders, chatFolders, EmptyGt, characters, chat, folderId)
    /\ Settle(IF chatFolders' # chatFolders THEN {"chatFolders"} ELSE {}, {})
    /\ UNCHANGED <<folders, hostVars, pinned, remapVars, pruneTimers, aggVars>>

\* remove-from-folder button of a chat item, confirmed: removeChatFromFolder, then
\* refreshFoldersTab()
RemoveClick(c, chat, folderId) ==
    /\ MapIsObject
    /\ InFolderList(chatFolders, chat, folderId)
    /\ chatFolders' = removeChatFromFolder(chatFolders, chat, folderId)
    /\ refreshFoldersTabCall(c, TRUE, FALSE, [set |-> TRUE, folders |-> folders, map |-> chatFolders'])
    /\ last' = Last("unassign", pinned, folders, chatFolders, EmptyGt, characters, chat, folderId)
    /\ Settle({"chatFolders"}, {})
    /\ UNCHANGED <<folders, hostVars, pinned, remapVars, pruneTimers, aggVars>>

\* ------------------------------------------------------------------------
\* The recent-chats view and the aggregation pass
\* ------------------------------------------------------------------------
\* the largest offset the load-more button is pressed to
MaxOffset == 4

\* the free slot a new call of populateAllChatsTab runs in
FreePass(s) == apc[s] = "idle" /\ \A t \in PassSlots : t < s => apc[t] # "idle"

\* the state of the slots other than the pass variables a step sets
PassIdle(s) ==
    /\ apc' = [apc EXCEPT ![s] = "idle"]
    /\ aarg' = [aarg EXCEPT ![s] = NoArgs]
    /\ aentries' = [aentries EXCEPT ![s] = <<>>]
    /\ aAllChats' = [aAllChats EXCEPT ![s] = <<>>]
    /\ aListOk' = [aListOk EXCEPT ![s] = {}]
    /\ aDirty' = [aDirty EXCEPT ![s] = FALSE]

\* populateAllChatsTab from the join to the return, and the continuation of doPopulate:
\* base is the container before the rendering, off the session's offset
PassFinish(s, arg, all, entries, base, off, cached, listOk, statsOk) ==
    LET r == PassResult(all, entries, arg, pinned, characters)
    IN  /\ container' = base \o Items(r.pinned, "pinned") \o Items(r.shown, "recent")
        /\ IF arg.session
           THEN /\ totalChats' = r.totalChats
                /\ loadMoreHidden' = ~(off + MAX_RECENT_CHATS < r.totalChats)
           ELSE UNCHANGED <<totalChats, loadMoreHidden>>
        /\ passLast' = [done |-> TRUE, raised |-> FALSE, cached |-> cached, dirty |-> aDirty[s],
                        arg |-> arg, entries |-> aentries[s], listOk |-> listOk, statsOk |-> statsOk,
                        dated |-> r.dated, filtered |-> r.filtered, shown |-> r.shown,
                        pinned |-> r.pinned, totalChats |-> r.totalChats, pinnedRaw |-> pinned,
                        stats |-> entries, chars |-> characters, stale |-> cached /\ cacheStale]

\* populateAllChatsTab up to its first await; base is the container at the call
PassCall(s, arg, base, off) ==
    /\ FreePass(s)
    /\ IF lastChatsData.set /\ arg.session
       THEN /\ PassFinish(s, arg, lastChatsData.allChats, lastChatsData.chatStatsMap,
                          IF arg.append THEN base ELSE <<>>, off, TRUE, {}, {})
            /\ UNCHANGED <<apc, aarg, aentries, aAllChats, aListOk, aDirty>>
       ELSE /\ container' = IF arg.append THEN base ELSE <<>>
            /\ apc' = [apc EXCEPT ![s] = "lists"]
            /\ aarg' = [aarg EXCEPT ![s] = arg]
            /\ aentries' = [aentries EXCEPT ![s] = characters]
            /\ aDirty' = [aDirty EXCEPT ![s] = FALSE]
            /\ UNCHANGED <<aAllChats, aListOk, totalChats, loadMoreHidden, passLast>>

\* doPopulate(filterValue, append) up to its await
doPopulate(s, filterValue, append, base, off) ==
    /\ lastFilter' = filterValue
    /\ PassCall(s, [filter |-> filterValue, offset |-> off, append |-> append, session |-> TRUE], base, off)

\* renderAllChatsInRecentChatsTab: the view is built once, then doPopulate('', false)
renderAllChatsInRecentChatsTab(s) ==
    /\ ~viewOpen
    /\ viewOpen' = TRUE
    /\ offset' = 0
    /\ doPopulate(s, <<>>, FALSE, <<>>, 0)
    /\ UNCHANGED <<hostVars, hostStats, pinned, folders, chatFolders, remapVars, pruneTimers,
                   refreshVars, lastChatsData, last, recordVars>>

\* the input handler of the filter box
FilterInput(s, f) ==
    /\ viewOpen
    /\ offset' = 0
    /\ doPopulate(s, f, FALSE, <<>>, 0)
    /\ UNCHANGED <<hostVars, hostStats, pinned, folders, chatFolders, remapVars, pruneTimers,
                   refreshVars, viewOpen, lastChatsData, last, recordVars>>

\* the click handler of the clear button
ClearFilter(s) ==
    /\ viewOpen
    /\ lastFilter # <<>>
    /\ offset' = 0
    /\ doPopulate(s, <<>>, FALSE, <<>>, 0)
    /\ UNCHANGED <<hostVars, hostStats, pinned, folders, chatFolders, remapVars, pruneTimers,
                   refreshVars, viewOpen, lastChatsData, last, recordVars>>

\* the click handler of the load-more button
LoadMore(s) ==
    /\ viewOpen
    /\ ~loadMoreHidden
    /\ offset + MAX_RECENT_CHATS <= MaxOffset
    /\ offset' = offset + MAX_RECENT_CHATS
    /\ doPopulate(s, lastFilter, TRUE, container, offset + MAX_RECENT_CHATS)
    /\ UNCHANGED <<hostVars, hostStats, pinned, folders, chatFolders, remapVars, pruneTimers,
                   refreshVars, viewOpen, lastChatsData, last, recordVars>>

\* populateAllChatsTab() with its defaults, as the pin and folder handlers call it
PopulateDefault(s) ==
    /\ viewOpen
    /\ PassCall(s, NoArgs, container, offset)
    /\ UNCHANGED <<hostVars, hostStats, pinned, folders, chatFolders, remapVars, pruneTimers,
                   refreshVars, viewOpen, lastFilter, lastChatsData, offset, last, recordVars>>

\* pin button of an item rendered as not pinned, 'pinned' chosen in the dialog:
\* togglePinChat(chat), then populateAllChatsTab() up to its await
PinClick(s, chat) ==
    /\ viewOpen
    /\ PinnedIsArray
    /\ \E i \in 1..Len(container) :
          /\ container[i].section = "recent"
          /\ chat = Chat(container[i].characterId, container[i].file_name)
    /\ isChatPinned(pinned, chat) \/ Len(pinned) < MaxPinned
    /\ pinned' = togglePinChat(pinned, chat)
    /\ last' = Last("togglePin", pinned, folders, chatFolders, EmptyGt, characters, chat, "")
    /\ Settle({"pinnedChats"}, {})
    /\ PassCall(s, NoArgs, container, offset)
    /\ UNCHANGED <<hostVars, hostStats, folders, chatFolders, remapVars, pruneTimers, refreshVars,
                   viewOpen, lastFilter, lastChatsData, offset>>

\* pin button of the item i of the container, rendered as pinned, and the Unpin dialog
\* confirmed: togglePinChat(chat), then populateAllChatsTab() up to its await
UnpinConfirm(s, i) ==
    /\ viewOpen
    /\ i \in 1..Len(container)
    /\ container[i].section = "pinned"
    /\ PinnedIsArray
    /\ LET chat == Chat(container[i].characterId, container[i].file_name)
       IN  /\ isChatPinned(pinned, chat) \/ Len(pinned) < MaxPinned
           /\ pinned' = togglePinChat(pinned, chat)
           /\ last' = Last("unpinConfirm", pinned, folders, chatFolders, EmptyGt, characters, chat, "")
    /\ Settle({"pinnedChats"}, {})
    /\ PassCall(s, NoArgs, container, offset)
    /\ UNCHANGED <<hostVars, hostStats, folders, chatFolders, remapVars, pruneTimers, refreshVars,
                   viewOpen, lastFilter, lastChatsData, offset>>

\* populateAllChatsTab() while the view does not exist: return { totalChats: 0 }
PopulateNoView(s) ==
    /\ ~viewOpen
    /\ FreePass(s)
    /\ passLast' = [NoPass EXCEPT !.done = TRUE]
    /\ UNCHANGED <<hostVars, hostStats, pinned, folders, chatFolders, remapVars, pruneTimers,
                   refreshVars, viewVars, apc, aarg, aentries, aAllChats, aListOk, aDirty, last, recordVars>>

\* await Promise.all(chatListPromises) returns; ok is the set of characters whose fetch succeeded
PassListsReturn(s, ok) ==
    /\ apc[s] = "lists"
    /\ ok \subseteq 1..Len(aentries[s])
    /\ aAllChats' = [aAllChats EXCEPT ![s] = FlatChatLists(aentries[s], 1, ok, hostChats)]
    /\ aListOk' = [aListOk EXCEPT ![s] = ok]
    /\ apc' = [apc EXCEPT ![s] = "stats"]
    /\ UNCHANGED <<hostVars, hostStats, pinned, folders, chatFolders, remapVars, pruneTimers,
                   refreshVars, viewVars, aarg, aentries, aDirty, passLast, last, recordVars>>

\* await Promise.all(statsPromises) returns; ok is the set of ids whose fetch succeeded
PassStatsReturn(s, ok) ==
    LET ids == UniqueCharacterIds(aAllChats[s])
        stats == FlatStats(ids, 1, ok, characters, hostStats, hostChats)
    IN  /\ apc[s] = "stats"
        /\ ok \subseteq Range(ids)
        /\ IF stats.raised
           THEN /\ passLast' = [NoPass EXCEPT !.done = TRUE, !.raised = TRUE, !.arg = aarg[s],
                                              !.entries = aentries[s], !.listOk = aListOk[s],
                                              !.statsOk = ok]
                /\ UNCHANGED <<viewVars, cacheStale>>
           ELSE /\ lastChatsData' = IF aarg[s].session
                                    THEN [set |-> TRUE, allChats |-> aAllChats[s],
                                          chatStatsMap |-> stats.entries]
                                    ELSE lastChatsData
                /\ cacheStale' = (cacheStale /\ ~aarg[s].session)
                /\ PassFinish(s, aarg[s], aAllChats[s], stats.entries, container, offset, FALSE,
                              aListOk[s], ok)
                /\ UNCHANGED <<viewOpen, lastFilter, offset>>
        /\ PassIdle(s)
        /\ UNCHANGED <<hostVars, hostStats, pinned, folders, chatFolders, remapVars, pruneTimers,
                       refreshVars, last, defaultSettings, aliased, shape, recordNull, threw>>

\* ------------------------------------------------------------------------
\* Chat rename from an item of a view
\* ------------------------------------------------------------------------
\* the owner of a listed chat in the host: the character's avatar, or the group
OwnerOf(chat) ==
    IF chat.characterId \in Groups THEN chat.characterId
    ELSE characters[IndexOfCharId(chat.characterId)]

\* the rename button of an item: the popup is confirmed with a new name, the host renames
\* the file, handleChatRename(chat, newName) runs and populateAllChatsTab() is called, which
\* returns at once while the recent view does not exist
ChatRename(s, chat, newName) ==
    /\ chat \in ListedChats(characters, hostChats)
    /\ newName # <<>> /\ newName # chat.file_name
    /\ newName \notin hostChats[OwnerOf(chat)]
    /\ hostChats' = [hostChats EXCEPT ![OwnerOf(chat)] = (@ \ {chat.file_name}) \cup {newName}]
    /\ hostStats' = IF OwnerOf(chat) \in Avatars
                    THEN [hostStats EXCEPT ![OwnerOf(chat)][newName] = hostStats[OwnerOf(chat)][chat.file_name]]
                    ELSE hostStats
    /\ IF chat.characterId = <<>>
       THEN UNCHANGED <<pinned, chatFolders>>
       ELSE /\ pinned' = RenamePinned(pinned, chat, newName)
            /\ chatFolders' = RenameMap(chatFolders, chat, newName)
    /\ last' = LastRename(pinned, folders, chatFolders, characters, chat, newName)
    /\ SettleRecord(IF chatFolders' # chatFolders THEN {"chatFolders"} ELSE {},
                    IF pinned' # pinned THEN {"pinnedChats"} ELSE {})
    /\ cacheStale' = (cacheStale \/ lastChatsData.set)
    /\ IF viewOpen
       THEN PassCall(s, NoArgs, container, offset)
       ELSE UNCHANGED <<container, totalChats, loadMoreHidden, apc, aarg, aentries, aAllChats,
                        aListOk, aDirty, passLast>>
    /\ rDirty' = [r \in RemapSlots |-> rDirty[r] \/ rpc[r] = "fetch"]
    /\ UNCHANGED <<characters, backupVars, folders, rpc, rentries, ridx, rgt, pruneTimers, refreshVars,
                   viewOpen, lastFilter, lastChatsData, offset>>

\* the rename button of an item when the host does not rename the file: the awaited
\* renameGroupOrCharacterChat either rejects, which ends the handler, or reports the failure
\* itself and returns, after which the handler goes on as after a rename
ChatRenameFails(s, chat, newName, rejects) ==
    /\ chat \in ListedChats(characters, hostChats)
    /\ newName # <<>> /\ newName # chat.file_name
    /\ IF rejects
       THEN /\ last' = [LastRename(pinned, folders, chatFolders, characters, chat, newName)
                            EXCEPT !.op = "renameRejected"]
            /\ Settle({}, {})
            /\ UNCHANGED <<pinned, chatFolders, aggVars>>
       ELSE /\ IF chat.characterId = <<>>
               THEN UNCHANGED <<pinned, chatFolders>>
               ELSE /\ pinned' = RenamePinned(pinned, chat, newName)
                    /\ chatFolders' = RenameMap(chatFolders, chat, newName)
            /\ last' = [LastRename(pinned, folders, chatFolders, characters, chat, newName)
                            EXCEPT !.op = "renameReported"]
            /\ SettleRecord(IF chatFolders' # chatFolders THEN {"chatFolders"} ELSE {},
                            IF pinned' # pinned THEN {"pinnedChats"} ELSE {})
            /\ cacheStale' = cacheStale
            /\ IF viewOpen
               THEN /\ PassCall(s, NoArgs, container, offset)
                    /\ UNCHANGED <<hostStats, viewOpen, lastFilter, lastChatsData, offset>>
               ELSE UNCHANGED aggVars
    /\ UNCHANGED <<hostVars, folders, remapVars, pruneTimers, refreshVars>>

\* ------------------------------------------------------------------------
\* Backups
\* ------------------------------------------------------------------------
\* the last day of the model
MaxDay == 3

\* the largest number of backup files uploaded
MaxUploads == 4

\* getMaxBackupSessions(): settings.maxBackupSessions (4 by default; the model has three days)
maxBackupSessions == 2

\* versions.filter(v => v.date !== date)
RECURSIVE WithoutDate(_, _)
WithoutDate(versions, date) ==
    IF versions = <<>> THEN <<>>
    ELSE (IF Head(versions).date # date THEN <<Head(versions)>> ELSE <<>>) \o WithoutDate(Tail(versions), date)

\* the dates of a list of versions
DatesOf(versions) == {versions[i].date : i \in 1..Len(versions)}

\* the urls of the versions of a date
UrlsOfDate(versions, date) == {versions[i].url : i \in {k \in 1..Len(versions) : versions[k].date = date}}

\* while (uniqueDates.length >= maxBackupSessions): the versions of the oldest date are deleted
\* from the server (ok: deleteAttachment succeeds) and removed from the list
RECURSIVE Rotate(_, _, _)
Rotate(versions, files, ok) ==
    IF Cardinality(DatesOf(versions)) >= maxBackupSessions /\ DatesOf(versions) # {}
    THEN LET oldestDate == CHOOSE d \in DatesOf(versions) : \A e \in DatesOf(versions) : d <= e
         IN  Rotate(WithoutDate(versions, oldestDate),
                    IF ok THEN files \ UrlsOfDate(versions, oldestDate) ELSE files, ok)
    ELSE [versions |-> versions, files |-> files]

\* the history of a createBackup call
LastBackup(result, uploaded) ==
    [op |-> "createBackup", result |-> result, uploaded |-> uploaded,
     versions |-> backupVersions, files |-> serverFiles]

\* createBackup(forceCreate); deleteOk: the host's deleteAttachment calls succeed, uploadOk:
\* uploadFileAttachmentToServer returns a url
createBackup(forceCreate, deleteOk, uploadOk) ==
    LET todayBackup == today \in DatesOf(backupVersions)
        forced == IF todayBackup
                  THEN [versions |-> WithoutDate(backupVersions, today),
                        files |-> IF deleteOk
                                  THEN serverFiles \ {backupVersions[CHOOSE i \in 1..Len(backupVersions) :
                                            /\ backupVersions[i].date = today
                                            /\ \A j \in 1..(i - 1) : backupVersions[j].date # today].url}
                                  ELSE serverFiles]
                  ELSE [versions |-> backupVersions, files |-> serverFiles]
        rotated == Rotate(forced.versions, forced.files, deleteOk)
        url == uploads + 1
    IN  /\ IF todayBackup /\ ~forceCreate
           THEN /\ backupLast' = LastBackup(TRUE, FALSE)
                /\ UNCHANGED <<backupVersions, serverFiles, uploads>>
           ELSE IF uploadOk
           THEN /\ uploads < MaxUploads
                /\ uploads' = url
                /\ serverFiles' = rotated.files \cup {url}
                /\ backupVersions' = Append(rotated.versions, [date |-> today, url |-> url])
                /\ backupLast' = LastBackup(TRUE, TRUE)
           ELSE /\ serverFiles' = rotated.files
                /\ backupLast' = LastBackup(FALSE, FALSE)
                /\ UNCHANGED <<backupVersions, uploads>>
        /\ UNCHANGED <<today, characters, hostChats, pinned, folders, chatFolders, remapVars, pruneTimers,
                       refreshVars, aggVars, last, recordVars>>

\* midnight passes
NextDay ==
    /\ today < MaxDay
    /\ today' = today + 1
    /\ UNCHANGED <<backupVersions, serverFiles, uploads, backupLast, characters, hostChats, pinned, folders,
                   chatFolders, remapVars, pruneTimers, refreshVars, aggVars, last, recordVars>>

\* ------------------------------------------------------------------------
\* Settings panel: import and wipe
\* ------------------------------------------------------------------------
\* a field of an imported document: its shape (missing, null, wrong for a non-empty string,
\* ok for a collection) and the collection
DocField(sh, v) == [shape |-> sh, value |-> v]

FieldMissing == DocField("missing", <<>>)

\* the text of the chosen file: not JSON (unparseable), or the JSON of a number, an array,
\* null or an object with its three organization fields
Document(kind, p, f, m) == [kind |-> kind, pinnedChats |-> p, folders |-> f, chatFolders |-> m]

\* typeof imported
TypeOf(doc) == IF doc.kind = "number" THEN "number" ELSE "object"

\* Array.isArray(imported)
IsArray(doc) == doc.kind = "array"

\* the try block up to the popup throws: JSON.parse fails, or 'Invalid data'
ImportThrows(doc) == doc.kind = "unparseable" \/ TypeOf(doc) # "object" \/ IsArray(doc)

\* the stored record as the accessors find it
StoredRecord ==
    [pinnedChats |-> pinned, folders |-> folders, chatFolders |-> chatFolders,
     shape |-> shape, isNull |-> recordNull]

\* the value getSettings yields for a field of the record stored by an import: the imported
\* collection, the object of defaultSettings for a missing field, nothing for null or a string
ImportedValue(doc, k) ==
    IF doc.kind = "null" \/ doc[k].shape = "missing" THEN defaultSettings[k]
    ELSE doc[k].value

\* the history of an import or a wipe: the record and the defaults found, the document and
\* the answer to the popup
LastPanel(op, doc, confirm) ==
    [op |-> op, record |-> StoredRecord, defaults |-> defaultSettings, doc |-> doc, confirm |-> confirm]

\* Import button, a file chosen: parse, test, popup, extensionSettings[settingsKey] = imported.
\* A stored null is replaced by structuredClone(defaultSettings) in the next getSettings; a
\* missing field is set to the object of defaultSettings there.
Import(doc, confirm) ==
    /\ last' = LastPanel("import", doc, confirm)
    /\ threw' = FALSE
    /\ UNCHANGED cacheStale
    /\ IF ImportThrows(doc) \/ ~confirm
       THEN UNCHANGED <<pinned, folders, chatFolders, defaultSettings, aliased, shape, recordNull>>
       ELSE /\ pinned' = ImportedValue(doc, "pinnedChats")
            /\ folders' = ImportedValue(doc, "folders")
            /\ chatFolders' = ImportedValue(doc, "chatFolders")
            /\ aliased' = IF doc.kind = "null" THEN {}
                          ELSE {k \in FieldNames : doc[k].shape = "missing"}
            /\ shape' = [k \in FieldNames |->
                            IF doc.kind = "null" \/ doc[k].shape = "missing" THEN "ok" ELSE doc[k].shape]
            /\ recordNull' = (doc.kind = "null")
            /\ UNCHANGED defaultSettings
    /\ UNCHANGED <<hostVars, remapVars, pruneTimers, refreshVars, aggVars>>

\* Wipe button: popup, extensionSettings[settingsKey] = structuredClone(defaultSettings)
Wipe(confirm) ==
    /\ last' = LastPanel("wipe", Document("null", FieldMissing, FieldMissing, FieldMissing), confirm)
    /\ threw' = FALSE
    /\ UNCHANGED cacheStale
    /\ IF ~confirm
       THEN UNCHANGED <<pinned, folders, chatFolders, defaultSettings, aliased, shape, recordNull>>
       ELSE /\ pinned' = defaultSettings.pinnedChats
            /\ folders' = defaultSettings.folders
            /\ chatFolders' = defaultSettings.chatFolders
            /\ aliased' = {}
            /\ shape' = [k \in FieldNames |-> "ok"]
            /\ recordNull' = FALSE
            /\ UNCHANGED defaultSettings
    /\ UNCHANGED <<hostVars, remapVars, pruneTimers, refreshVars, aggVars>>

\* ------------------------------------------------------------------------
\* Specifications
\* ------------------------------------------------------------------------
\* the ids a CHARACTER_DELETED event may carry
DeletableIds == {charIdOf(i) : i \in 1..MaxChars}

\* host events and the remap they schedule
NextRemap ==
    \/ \E d \in AllDirs : HostDirectoryChange(d)
    \/ \E o, n \in Avatars : handleCharacterRename(1, o, n)
    \/ handleCharacterDuplicated(1)
    \/ handleSettingsReloaded(1)
    \/ handleCharacterPageLoaded(1)
    \/ RemapBegin(1)
    \/ \E ok \in BOOLEAN : RemapListReturn(1, ok)

\* the Pinned Set under pin/unpin and remap
NextPins ==
    \/ \E c \in ListedChats(characters, hostChats) : TogglePin(c)
    \/ NextRemap

SpecPins == InitData /\ [][NextPins]_vars

\* the Assignment Map under assign/unassign and remap
NextFolders ==
    \/ \E n \in FolderNames, p \in {Null} \cup Range(FolderIds) : AddFolder(n, p)
    \/ \E c \in ListedChats(characters, hostChats), f \in Range(FolderIds) : Assign(c, f)
    \/ \E c \in ListedChats(characters, hostChats), f \in Range(FolderIds) : Unassign(c, f)
    \/ NextRemap

SpecFolders == InitData /\ [][NextFolders]_vars

\* the chats the prune is exercised with: one of each character
PrunedChats == {c \in ListedChats(characters, hostChats) : c.file_name = <<"x">>}

\* the chats the folder dialogs are exercised with: these and the group's
AssignedChats == PrunedChats \cup {c \in ListedChats(characters, hostChats) : c.characterId \in Groups}

\* the Assignment Map under the folder dialogs alone
NextAssign ==
    \/ \E n \in FolderNames : AddFolder(n, Null)
    \/ \E c \in AssignedChats, f \in Range(FolderIds) : Assign(c, f)
    \/ \E c \in AssignedChats, f \in Range(FolderIds) : Unassign(c, f)

SpecAssign == InitData /\ [][NextAssign]_vars

\* the Pinned Set and the Assignment Map under pin, assign and prune
NextPrune ==
    \/ \E n \in FolderNames : AddFolder(n, Null)
    \/ \E c \in PrunedChats : TogglePin(c)
    \/ \E c \in PrunedChats, f \in Range(FolderIds) : Assign(c, f)
    \/ \E id \in DeletableIds : handleCharacterDelete(id)
    \/ \E id \in DeletableIds : Prune(id)

SpecPrune == InitData /\ [][NextPrune]_vars

\* the folders tab under refresh requests from any caller
NextRefresh ==
    \/ \E d \in AllDirs : HostDirectoryChange(d)
    \/ \E c \in RefreshSlots, tab, throws \in BOOLEAN : RefreshCall(c, tab, throws)
    \/ \E c \in RefreshSlots, ok \in SUBSET (1..MaxChars) : RefreshListsReturn(c, ok)
    \/ \E c \in RefreshSlots, throws \in BOOLEAN : RefreshStatsReturn(c, throws)

SpecRefresh == InitData /\ [][NextRefresh]_vars

\* ------------------------------------------------------------------------
\* Properties
\* ------------------------------------------------------------------------
\* every owner id a stored entry may carry
OwnerIds == {charIdOf(i) : i \in 1..MaxChars} \cup Groups

\* the number of occurrences of x in the list l
Count(l, x) == Cardinality({i \in 1..Len(l) : l[i] = x})

\* C1: after a remap, a pinned entry (o, f) whose file the ground truth maps to
\* another owner o' is (o', f), and an entry whose file is absent from the
\* ground truth is as it was; no entry is added or removed.
C1_RemapPinnedSet ==
    last.op = "remap" =>
        /\ Len(pinned) = Len(last.pinned)
        /\ \A i \in 1..Len(last.pinned) :
              LET e == last.pinned[i]
              IN  /\ (e.file_name \in DOMAIN last.gt /\ last.gt[e.file_name] # e.characterId)
                        => pinned[i] = Chat(last.gt[e.file_name], e.file_name)
                  /\ e.file_name \notin DOMAIN last.gt => pinned[i] = e

\* C1 witness: a remap met one entry stored under a stale owner id and one
\* entry whose file no listing returned.
C1_Witness ==
    /\ last.op = "remap"
    /\ \E i \in 1..Len(last.pinned) :
          /\ last.pinned[i].file_name \in DOMAIN last.gt
          /\ last.gt[last.pinned[i].file_name] # last.pinned[i].characterId
    /\ \E i \in 1..Len(last.pinned) : last.pinned[i].file_name \notin DOMAIN last.gt

\* C2: after a remap, the folder list under a corrected key o':f is the union
\* of the folder lists of all the entries of file f, when some entry o:f was
\* rewritten to it: no folder membership is lost.
C2_RemapMerges ==
    last.op = "remap" =>
        \A o \in OwnerIds, f \in Files :
            (/\ ObjHas(last.map, ChatKey(o, f))
             /\ f \in DOMAIN last.gt
             /\ last.gt[f] # o)
            => /\ ObjHas(chatFolders, ChatKey(last.gt[f], f))
               /\ Range(ObjGet(chatFolders, ChatKey(last.gt[f], f))) =
                    UNION {Range(ObjGet(last.map, ChatKey(o2, f))) :
                              o2 \in {o3 \in OwnerIds : ObjHas(last.map, ChatKey(o3, f))}}

\* C3: after a remap, an entry whose owner (character or group) exists and
\* whose file is absent from the ground truth is under its key with its list.
C3_RemapKeepsExistingOwners ==
    last.op = "remap" =>
        \A o \in OwnerIds, f \in Files :
            (/\ ObjHas(last.map, ChatKey(o, f))
             /\ f \notin DOMAIN last.gt
             /\ o \in CharIdsOf(last.chars) \cup Groups)
            => /\ ObjHas(chatFolders, ChatKey(o, f))
               /\ ObjGet(chatFolders, ChatKey(o, f)) = ObjGet(last.map, ChatKey(o, f))

\* C4: after a remap, no key o:f is stored whose owner o is no current owner
\* and whose file f is absent from the ground truth.
C4_RemapDropsOrphans ==
    last.op = "remap" =>
        \A o \in OwnerIds, f \in Files :
            ObjHas(chatFolders, ChatKey(o, f))
            => (o \in CharIdsOf(last.chars) \cup Groups \/ f \in DOMAIN last.gt)

\* C5: after the prune of d, the Pinned Set holds exactly the former entries
\* of the other owners, the Assignment Map exactly the former keys of the
\* other owners with their lists, and the folder list is as it was.
C5_PruneExact ==
    last.op = "prune" =>
        LET d == last.chat.characterId
        IN  /\ \A e \in [characterId : OwnerIds, file_name : Files] :
                  isChatPinned(pinned, e) <=> (isChatPinned(last.pinned, e) /\ e.characterId # d)
            /\ \A o \in OwnerIds, f \in Files :
                  /\ ObjHas(chatFolders, ChatKey(o, f)) <=> (ObjHas(last.map, ChatKey(o, f)) /\ o # d)
                  /\ ObjHas(chatFolders, ChatKey(o, f))
                        => ObjGet(chatFolders, ChatKey(o, f)) = ObjGet(last.map, ChatKey(o, f))
            /\ Len(chatFolders) <= Len(last.map)
            /\ Len(pinned) <= Len(last.pinned)
            /\ folders = last.folders

\* C5 witness: a prune removed a pinned entry and a key of the deleted owner
\* and met a pinned entry and a key of another owner, with a folder present.
C5_Witness ==
    /\ last.op = "prune"
    /\ Len(folders) > 0
    /\ \E i \in 1..Len(last.pinned) : last.pinned[i].characterId = last.chat.characterId
    /\ \E i \in 1..Len(last.pinned) : last.pinned[i].characterId # last.chat.characterId
    /\ \E o \in OwnerIds, f \in Files :
          o # last.chat.characterId /\ ObjHas(last.map, ChatKey(o, f))
    /\ \E f \in Files : ObjHas(last.map, ChatKey(last.chat.characterId, f))

\* C10: assigning twice gives the map of assigning once, in every reachable
\* map and for every chat and folder, and the assigned folder is in the
\* chat's list exactly once.
C10_AssignIdempotent ==
    /\ \A c \in [characterId : OwnerIds, file_name : Files], f \in Range(FolderIds) :
          LET once == assignChatToFolder(chatFolders, c, f)
              twice == assignChatToFolder(once, c, f)
          IN  /\ twice = once
              /\ Count(ObjGet(twice, ChatKey(c.characterId, c.file_name)), f) = 1
    /\ last.op = "assign" =>
          /\ Count(ObjGet(chatFolders, ChatKey(last.chat.characterId, last.chat.file_name)), last.folderId) = 1
          /\ (/\ ObjHas(last.map, ChatKey(last.chat.characterId, last.chat.file_name))
              /\ last.folderId \in Range(ObjGet(last.map, ChatKey(last.chat.characterId, last.chat.file_name))))
                => chatFolders = last.map

\* C10 witness: assign was called for a folder the chat was already in.
C10_Witness ==
    /\ last.op = "assign"
    /\ ObjHas(last.map, ChatKey(last.chat.characterId, last.chat.file_name))
    /\ last.folderId \in Range(ObjGet(last.map, ChatKey(last.chat.characterId, last.chat.file_name)))
    /\ Len(chatFolders) = 2

\* the refreshFoldersTab calls that are between their first and last await
RefreshesInFlight == {c \in RefreshSlots : rfpc[c] # "idle"}

\* C6: at most one refresh is in its fetch sequence at a time, and a request
\* made while one is in flight returns with no fetch of its own pending.
C6_RefreshGuard ==
    /\ Cardinality(RefreshesInFlight) <= 1
    /\ rfLast.outcome = "dropped" =>
          /\ rfpc[rfLast.call] = "idle"
          /\ rfAllChats[rfLast.call] = <<>>
          /\ RefreshesInFlight # {}

\* C6 witness: a request was dropped while another refresh awaits its stats.
C6_Witness ==
    /\ rfLast.outcome = "dropped"
    /\ \E c \in RefreshSlots : rfpc[c] = "stats" /\ Len(rfAllChats[c]) > 0

\* C7: the latch is set exactly while a refresh is in flight: when a refresh
\* ended (completed, found no tab element, or threw) the latch is released,
\* and a request is dropped only while a refresh is in flight.
C7_LatchReleased ==
    /\ isRefreshingFoldersTab <=> RefreshesInFlight # {}
    /\ rfLast.outcome \in {"normal", "noTab", "throw"} => ~isRefreshingFoldersTab
    /\ rfLast.outcome = "dropped" => RefreshesInFlight # {}

\* C7 witness: refreshes have ended in each of the three ways, and a request
\* made after them is executing.
C7_Witness ==
    /\ rfEnded = {"normal", "noTab", "throw"}
    /\ rfLast.outcome = "started"
    /\ isRefreshingFoldersTab

\* the recent-chats view over a fixed host: one pass at a time, its fetches, a pin
NextAgg ==
    \/ renderAllChatsInRecentChatsTab(1)
    \/ \E f \in Filters : FilterInput(1, f)
    \/ ClearFilter(1)
    \/ LoadMore(1)
    \/ PopulateDefault(1)
    \/ PopulateNoView(1)
    \/ \E ok \in SUBSET (1..MaxChars) : PassListsReturn(1, ok)
    \/ \E ok \in SUBSET DeletableIds : PassStatsReturn(1, ok)
    \/ TogglePin(Chat(charIdOf(2), <<"y">>))

SpecAgg == InitAgg /\ [][NextAgg]_vars

\* the pass has a chat of the owner at id with the file name f in its aggregated list
Aggregated(id, f) ==
    \E k \in 1..Len(passLast.dated) :
        passLast.dated[k].characterId = id /\ passLast.dated[k].file_name = f

\* C8: a pass that fetched completes without raising whatever fetches failed; an owner whose
\* listing failed has no chat in the aggregated list, and every chat with a valid date of an
\* owner whose listing and stats fetches succeeded is in it.
C8_PartialFailureIsolation ==
    (passLast.done /\ ~passLast.cached) =>
        /\ ~passLast.raised
        /\ \A i \in 1..Len(passLast.entries) :
              /\ i \notin passLast.listOk => \A f \in Files : ~Aggregated(charIdOf(i), f)
              /\ (i \in passLast.listOk /\ charIdOf(i) \in passLast.statsOk) =>
                    \A f \in hostChats[passLast.entries[i]] :
                        ParseMoment(hostStats[passLast.entries[i]][f]) # 0
                            => Aggregated(charIdOf(i), f)

\* a pass over two owners in which the listing of the second failed, or in which both
\* listings succeeded and the stats fetch of the second failed, and the first owner's two
\* chats were aggregated
C8_Witness ==
    /\ passLast.done /\ ~passLast.cached /\ ~passLast.raised
    /\ Len(passLast.entries) = 2
    /\ \/ passLast.listOk = {1} /\ passLast.statsOk = {charIdOf(1)}
       \/ passLast.listOk = {1, 2} /\ passLast.statsOk = {charIdOf(1)}
    /\ Len(passLast.dated) = 2
    /\ \A f \in Files : Aggregated(charIdOf(1), f)

\* C9: a pass with a filtered list of N chats requested with offset k*P, 0 <= k*P <= N, shows
\* min(P, N - k*P) chats, the ones at positions k*P .. k*P + min(P, N - k*P) - 1 of the filtered
\* list, and returns totalChats = N.
C9_Pagination ==
    LET N == Len(passLast.filtered)
        off == passLast.arg.offset
    IN  (passLast.done /\ ~passLast.raised /\ off % MAX_RECENT_CHATS = 0 /\ off <= N) =>
            /\ Len(passLast.shown) = Min(MAX_RECENT_CHATS, N - off)
            /\ \A i \in 1..Len(passLast.shown) : passLast.shown[i] = passLast.filtered[off + i]
            /\ passLast.totalChats = N

\* a second page that is not full: a pass at a positive offset over a list whose rest is
\* shorter than a page
C9_Witness ==
    /\ passLast.done /\ ~passLast.raised
    /\ passLast.arg.offset > 0
    /\ passLast.arg.offset % MAX_RECENT_CHATS = 0
    /\ Len(passLast.filtered) > passLast.arg.offset
    /\ Len(passLast.filtered) < passLast.arg.offset + MAX_RECENT_CHATS
    /\ Len(passLast.shown) = Len(passLast.filtered) - passLast.arg.offset

\* the character arrays of the host in the organization specification: both characters, or
\* the second alone at the index of the first
OrganizeDirs == {<<<<"a">>, <<"b">>>>, <<<<"b">>>>}

\* the folders chats are assigned to in the organization specification
OrganizeFolders == {FolderIds[1], FolderIds[2]}

\* the organization under every data-model operation: folders, assign, unassign, chat
\* rename, remap and prune
NextOrganize ==
    \/ \E n \in FolderNames : AddFolder(n, Null)
    \/ \E c \in PrunedChats, f \in OrganizeFolders : Assign(c, f)
    \/ \E c \in PrunedChats, f \in OrganizeFolders : Unassign(c, f)
    \/ \E c \in PrunedChats, n \in Files : ChatRename(1, c, n)
    \/ \E d \in OrganizeDirs : HostDirectoryChange(d)
    \/ handleCharacterPageLoaded(1)
    \/ RemapBegin(1)
    \/ \E ok \in BOOLEAN : RemapListReturn(1, ok)
    \/ handleCharacterDelete(charIdOf(1))
    \/ Prune(charIdOf(1))

SpecOrganize == InitData /\ [][NextOrganize]_vars

\* C11: no key of the Assignment Map maps to an empty folder list, in every state reached
\* from the empty map by assign, unassign, chat rename, remap and prune; an unassign of the
\* last folder of a key removes the key.
C11_NoEmptyEntries ==
    /\ \A i \in 1..Len(chatFolders) : chatFolders[i].ids # <<>>
    /\ \A i \in 1..Len(chatFolders), f \in Range(FolderIds) :
          chatFolders[i].ids = <<f>> =>
              ~ObjHas(removeChatFromFolder(chatFolders, [characterId |-> KeyCharId(chatFolders[i].key),
                                                         file_name |-> KeyFileName(chatFolders[i].key)], f),
                      chatFolders[i].key)

\* an unassign met a key with one folder, removed that folder, and the key is gone
C11_Witness ==
    /\ last.op = "unassign"
    /\ ObjHas(last.map, ChatKey(last.chat.characterId, last.chat.file_name))
    /\ ObjGet(last.map, ChatKey(last.chat.characterId, last.chat.file_name)) = <<last.folderId>>
    /\ ~ObjHas(chatFolders, ChatKey(last.chat.characterId, last.chat.file_name))
    /\ Len(chatFolders) > 0

\* the folder names of the rename popup
RenamedFolderNames == {"n", "m"}

\* the folder list under the folder dialogs
NextTree ==
    \/ \E n \in FolderNames, p \in {Null} \cup Range(FolderIds) : AddFolder(n, p)
    \/ \E id \in Range(FolderIds) : RemoveFolder(id)
    \/ \E id \in Range(FolderIds), n \in RenamedFolderNames : RenameFolder(id, n)

SpecTree == InitData /\ [][NextTree]_vars

\* C12: buildFolderTree of every folder list reached by addFolder, removeFolder and folder
\* rename is a forest that holds every folder exactly once, as a root when its parent is null
\* or not in the list and under its parent otherwise (the forest is a function of the list).
C12_TreeBuilder ==
    LET nodes == ForestNodes(buildFolderTree(folders), Null)
    IN  /\ Len(nodes) = Len(folders)
        /\ \A i \in 1..Len(folders) :
              /\ Cardinality({k \in 1..Len(nodes) : nodes[k].id = folders[i].id}) = 1
              /\ \E k \in 1..Len(nodes) :
                    /\ nodes[k].id = folders[i].id
                    /\ nodes[k].under = IF folders[i].parent \in FolderIdsOf(folders)
                                        THEN folders[i].parent ELSE Null

\* a folder whose parent was removed is a root, and a folder added under it is its child
C12_Witness ==
    /\ Len(folders) = 2
    /\ folders[1].parent # Null /\ folders[1].parent \notin FolderIdsOf(folders)
    /\ folders[2].parent = folders[1].id
    /\ Len(buildFolderTree(folders)) = 1
    /\ Len(buildFolderTree(folders)[1].children) = 1
    /\ buildFolderTree(folders)[1].children[1].id = folders[2].id

\* the character arrays of the host in the rename specification: the two characters in
\* either order
RenameDirs == {<<<<"a">>, <<"b">>>>, <<<<"b">>, <<"a">>>>}

\* the chats the rename is exercised with: the chats of the characters
RenamedChats == {c \in ListedChats(characters, hostChats) : c.characterId \notin Groups}

\* pins, folders, assignments and chat renames made in the views, over a host that
\* reorders its characters
NextRename ==
    \/ \E n \in FolderNames : AddFolder(n, Null)
    \/ \E c \in RenamedChats : TogglePin(c)
    \/ \E c \in PrunedChats : Assign(c, FolderIds[1])
    \/ \E c \in RenamedChats, n \in Files : ChatRename(1, c, n)
    \/ \E d \in RenameDirs : HostDirectoryChange(d)

SpecRename == InitData /\ [][NextRename]_vars

\* the number of entries of a pinned list for a chat
PinCount(p, characterId, fileName) ==
    Cardinality({i \in 1..Len(p) : p[i].characterId = characterId /\ p[i].file_name = fileName})

\* the organization after the last rename, of chat (o, old) to new: (o, new) is pinned iff
\* (o, old) was, the list under o:new is the list formerly under o:old, nothing is left for
\* (o, old), and the pins and map entries of every other chat are as before
RenameKept ==
    LET o == last.chat.characterId
        old == last.chat.file_name
        new == last.newName
    IN  /\ isChatPinned(pinned, Chat(o, new)) <=> isChatPinned(last.pinned, Chat(o, old))
        /\ IF ObjHas(last.map, ChatKey(o, old))
           THEN /\ ObjHas(chatFolders, ChatKey(o, new))
                /\ ObjGet(chatFolders, ChatKey(o, new)) = ObjGet(last.map, ChatKey(o, old))
           ELSE ~ObjHas(chatFolders, ChatKey(o, new))
        /\ ~isChatPinned(pinned, Chat(o, old))
        /\ ~ObjHas(chatFolders, ChatKey(o, old))
        /\ \A c \in OwnerIds, f \in Files :
              (c # o \/ f \notin {old, new}) =>
                  /\ PinCount(pinned, c, f) = PinCount(last.pinned, c, f)
                  /\ ObjHas(chatFolders, ChatKey(c, f)) <=> ObjHas(last.map, ChatKey(c, f))
                  /\ ObjHas(chatFolders, ChatKey(c, f)) =>
                        ObjGet(chatFolders, ChatKey(c, f)) = ObjGet(last.map, ChatKey(c, f))

ImportedPinned == {<<>>, <<Chat(charIdOf(1), <<"y">>)>>}
ImportedFolders == {<<>>, <<[id |-> FolderIds[1], name |-> "n", parent |-> Null]>>}
ImportedMaps == {<<>>}

\* the documents of the settings specification: one per kind that is not an object with
\* fields, and the objects whose fields are missing, null, a string or a collection
ImportDocs ==
    {Document(k, FieldMissing, FieldMissing, FieldMissing) : k \in {"unparseable", "number", "array", "null"}}
    \cup {Document("record", p, f, m) :
            p \in {FieldMissing} \cup {DocField("ok", v) : v \in ImportedPinned},
            f \in {FieldMissing} \cup {DocField("ok", v) : v \in ImportedFolders},
            m \in {FieldMissing} \cup {DocField("ok", v) : v \in ImportedMaps}}

\* the chat pinned and assigned in the settings specification
PanelChats == {Chat(charIdOf(1), <<"x">>)}

\* the organization under pin, add-folder, assign, import and wipe
NextSettings ==
    \/ \E c \in PanelChats : TogglePin(c)
    \/ AddFolder("n", Null)
    \/ \E c \in PanelChats : Assign(c, FolderIds[1])
    \/ \E doc \in ImportDocs, confirm \in BOOLEAN : Import(doc, confirm)
    \/ \E confirm \in BOOLEAN : Wipe(confirm)

SpecSettings == InitData /\ [][NextSettings]_vars

\* C14: import is all-or-nothing and confirmed. After an import, if the document did not
\* parse, is not a record (a non-object, an array, null) or the popup was cancelled, the
\* stored record is the one found; otherwise the stored record is the imported one: each field
\* of the document is the stored field, and a field the document lacks reads as the default.
C14_ImportAllOrNothing ==
    last.op = "import" =>
        IF last.doc.kind # "record" \/ ~last.confirm
        THEN StoredRecord = last.record
        ELSE /\ ~recordNull
             /\ \A k \in FieldNames :
                   /\ shape[k] = (IF last.doc[k].shape = "missing" THEN "ok" ELSE last.doc[k].shape)
                   /\ StoredRecord[k] = (IF last.doc[k].shape = "missing" THEN last.defaults[k]
                                         ELSE last.doc[k].value)

\* a confirmed import of the document null into a record that holds a pin
C14_NullImported ==
    /\ last.op = "import" /\ last.doc.kind = "null" /\ last.confirm
    /\ last.record.pinnedChats # <<>>
    /\ recordNull


\* C15: wipe resets all extension data. After a confirmed wipe the Pinned Set, the folder
\* list and the Assignment Map read back through the accessors are empty, whatever pins,
\* folders, assignments and imports came before; a cancelled wipe leaves the record as found.
C15_WipeResets ==
    last.op = "wipe" =>
        IF last.confirm
        THEN pinned = <<>> /\ folders = <<>> /\ chatFolders = <<>>
        ELSE StoredRecord = last.record

\* a confirmed wipe of a record whose pinned list is the list of defaultSettings, with a pin in it
C15_WipedSharedDefaults ==
    /\ last.op = "wipe" /\ last.confirm
    /\ last.defaults.pinnedChats # <<>>
    /\ last.record.pinnedChats = last.defaults.pinnedChats


\* the folders and assignments under the folder dialogs and the folder picker
NextIntegrity ==
    \/ \E p \in {Null} \cup Range(FolderIds) : AddFolder("n", p)
    \/ \E c \in PanelChats, f \in Range(FolderIds) : Assign(c, f)
    \/ \E c \in PanelChats, f \in Range(FolderIds) : Unassign(c, f)
    \/ \E id \in Range(FolderIds) : RemoveFolder(id)

SpecIntegrity == InitData /\ [][NextIntegrity]_vars

\* C16: folder referential integrity. After a folder removal and after every other operation
\* on the data model, every folder id in a folder list of the Assignment Map and every
\* non-null parent of a folder is the id of a folder of the folder list.
C16_FolderIntegrity ==
    /\ \A i \in 1..Len(chatFolders) : Range(chatFolders[i].ids) \subseteq FolderIdsOf(folders)
    /\ \A i \in 1..Len(folders) : folders[i].parent # Null => folders[i].parent \in FolderIdsOf(folders)

\* a folder was removed that a chat was assigned to or that was the parent of a folder
C16_RemovedReferenced ==
    /\ last.op = "removeFolder"
    /\ \/ \E i \in 1..Len(last.map) : last.folderId \in Range(last.map[i].ids)
       \/ \E i \in 1..Len(last.folders) : last.folders[i].parent = last.folderId


\* the pinned entry p has an item in the pinned section of the pass
InPinnedSection(p) ==
    \E k \in 1..Len(passLast.pinned) :
        passLast.pinned[k].characterId = p.characterId /\ passLast.pinned[k].file_name = p.file_name

\* C17: pinned listing with fallback. In every completed pass the pinned section holds
\* exactly the entries of the Pinned Set whose record (joined, or synthesized when the chat is
\* not in the dated list) matches the text filter; with an empty filter it holds every entry.
C17_PinnedListing ==
    passLast.done =>
        /\ \A i \in 1..Len(passLast.pinnedRaw) :
              InPinnedSection(passLast.pinnedRaw[i])
                  <=> chatMatches(PinnedRecord(passLast.pinnedRaw[i], passLast.dated, passLast.stats,
                                               passLast.chars), passLast.arg.filter)
        /\ \A k \in 1..Len(passLast.pinned) :
              \E i \in 1..Len(passLast.pinnedRaw) :
                  /\ passLast.pinnedRaw[i].characterId = passLast.pinned[k].characterId
                  /\ passLast.pinnedRaw[i].file_name = passLast.pinned[k].file_name

\* a pass with an empty filter whose Pinned Set holds a chat that has no stats record
C17_PinnedWithoutStats ==
    /\ passLast.done /\ passLast.arg.filter = <<>>
    /\ \E i \in 1..Len(passLast.pinnedRaw) :
          StatOf(passLast.stats, ChatKey(passLast.pinnedRaw[i].characterId,
                                         passLast.pinnedRaw[i].file_name)) = NoStat


\* the chat c was in the Pinned Set read by the pass
PinnedInPass(c) ==
    \E i \in 1..Len(passLast.pinnedRaw) :
        passLast.pinnedRaw[i].characterId = c.characterId /\ passLast.pinnedRaw[i].file_name = c.file_name

\* C18: the paginated recent list is the non-pinned list. In a completed pass no chat of the
\* Pinned Set is among the recent items, and totalChats counts the filtered chats that are
\* not pinned.
C18_RecentExcludesPinned ==
    passLast.done =>
        /\ \A k \in 1..Len(passLast.shown) : ~PinnedInPass(passLast.shown[k])
        /\ passLast.totalChats =
              Cardinality({k \in 1..Len(passLast.filtered) : ~PinnedInPass(passLast.filtered[k])})

\* a pass whose filtered list holds a pinned chat
C18_PinnedInFiltered ==
    /\ passLast.done
    /\ \E k \in 1..Len(passLast.filtered) : PinnedInPass(passLast.filtered[k])


\* the host of the cache specification: the first character has the chat x, the second
\* both chats, all dated
InitCache ==
    /\ InitModule
    /\ hostChats = [o \in Avatars \cup Groups |->
                        IF o = <<"a">> THEN {<<"x">>} ELSE IF o = <<"b">> THEN Files ELSE {}]
    /\ hostStats = [o \in Avatars |-> [f \in Files |-> "t2"]]

\* the chats renamed, pinned and assigned in the cache specification: those of the first character
CachedChats == {c \in ListedChats(characters, hostChats) : c.characterId = charIdOf(1)}

\* the recent-chats view with its cache under rename, pin and assignment; every fetch succeeds
NextCache ==
    \/ renderAllChatsInRecentChatsTab(1)
    \/ \E f \in {<<>>, <<"x">>} : FilterInput(1, f)
    \/ LoadMore(1)
    \/ PassListsReturn(1, 1..Len(aentries[1]))
    \/ PassStatsReturn(1, Range(UniqueCharacterIds(aAllChats[1])))
    \/ \E c \in CachedChats : TogglePin(c)
    \/ AddFolder("n", Null)
    \/ \E c \in CachedChats : Assign(c, FolderIds[1])
    \/ \E c \in CachedChats, n \in Files : ChatRename(1, c, n)

SpecCache == InitCache /\ [][NextCache]_vars

\* C19: cache bypass after mutation. No completed pass of the recent view was computed from a
\* cached chat list and stats map that were set before a chat rename, a pin or an assignment
\* made since.
C19_CacheBypass == (passLast.done /\ passLast.cached) => ~passLast.stale

\* a pass computed from the cache lists a chat under a file name its owner no longer has
C19_RenamedChatFromCache ==
    /\ passLast.done /\ passLast.cached /\ passLast.stale
    /\ \E k \in 1..Len(passLast.dated) :
          /\ HasCharacter(characters, passLast.dated[k].characterId)
          /\ passLast.dated[k].file_name
                \notin hostChats[characters[IndexOfCharId(passLast.dated[k].characterId)]]


\* the documents of the shape specification: objects whose pinnedChats and chatFolders are
\* missing, null, a string or a collection, and whose folders are null, a string or a list
ShapeDocs ==
    {Document("record", p, f, m) :
        p \in {DocField(sh, <<>>) : sh \in {"missing", "null", "wrong"}}
                \cup {DocField("ok", v) : v \in ImportedPinned},
        f \in {DocField(sh, <<>>) : sh \in {"null", "wrong"}} \cup {DocField("ok", v) : v \in ImportedFolders},
        m \in {DocField(sh, <<>>) : sh \in {"missing", "null", "wrong", "ok"}}}

\* the accessors and operations over imported records of every shape
NextShapes ==
    \/ \E doc \in ShapeDocs : Import(doc, TRUE)
    \/ \E c \in PanelChats : IsChatPinnedCall(c)
    \/ \E c \in PanelChats : TogglePin(c)
    \/ AddFolder("n", Null)
    \/ \E c \in PanelChats : Assign(c, FolderIds[1])
    \/ \E c \in PanelChats : Unassign(c, FolderIds[1])

SpecShapes == InitData /\ [][NextShapes]_vars

\* C20: accessors never throw on malformed stored data. Whatever record is stored,
\* isChatPinned, togglePinChat, addFolder, assign and unassign complete without raising, and
\* getPinnedChats, getFolders and getChatFoldersMap give a collection (the empty one for a
\* missing, null or wrongly shaped field).
C20_AccessorsNeverThrow ==
    /\ ~threw
    /\ PinnedIsArray /\ FoldersIsArray /\ MapIsObject

\* togglePinChat was called on a record whose pinnedChats is a string, the folders being well-formed
C20_ToggleOnString ==
    /\ last.op = "togglePinChat" /\ threw
    /\ shape.pinnedChats = "wrong"
    /\ shape.folders = "ok" /\ folders # <<>>


\* the filters typed in the overlap specification
OverlapFilters == {<<>>, <<"x">>, <<"y">>, <<"B">>}

\* the recent-chats view with two calls of populateAllChatsTab in flight at once; every fetch
\* succeeds, the host does not change
NextOverlap ==
    \/ renderAllChatsInRecentChatsTab(1)
    \/ \E s \in PassSlots, f \in OverlapFilters : FilterInput(s, f)
    \/ \E s \in PassSlots : ClearFilter(s)
    \/ \E s \in PassSlots : PassListsReturn(s, 1..Len(aentries[s]))
    \/ \E s \in PassSlots : PassStatsReturn(s, Range(UniqueCharacterIds(aAllChats[s])))

SpecOverlap == InitAgg /\ [][NextOverlap]_vars

\* the items populateAllChatsTab renders for a filter and an offset from the host's data
RenderingOf(filter, off) ==
    LET all == FlatChatLists(characters, 1, 1..Len(characters), hostChats)
        ids == UniqueCharacterIds(all)
        stats == FlatStats(ids, 1, Range(ids), characters, hostStats, hostChats)
        r == PassResult(all, stats.entries,
                        [filter |-> filter, offset |-> off, append |-> FALSE, session |-> TRUE],
                        pinned, characters)
    IN  Items(r.pinned, "pinned") \o Items(r.shown, "recent")

\* C21: superseded passes are discarded. Once every pass of the view has completed, the
\* container holds exactly the rendering of the filter and offset requested last: nothing of
\* an earlier pass, and each chat of the page once.
C21_SupersededDiscarded ==
    (viewOpen /\ \A s \in PassSlots : apc[s] = "idle") => container = RenderingOf(lastFilter, offset)

\* all passes have completed and the container holds an item twice
C21_ItemTwice ==
    /\ viewOpen /\ \A s \in PassSlots : apc[s] = "idle"
    /\ \E i, j \in 1..Len(container) : i # j /\ container[i] = container[j]


\* pins and assignments made while a remap or a prune is pending
NextInflight ==
    \/ \E c \in PrunedChats : TogglePin(c)
    \/ AddFolder("n", Null)
    \/ \E c \in PrunedChats : Assign(c, FolderIds[1])
    \/ \E c \in PrunedChats : Unassign(c, FolderIds[1])
    \/ \E d \in OrganizeDirs : HostDirectoryChange(d)
    \/ handleCharacterPageLoaded(1)
    \/ RemapBegin(1)
    \/ \E ok \in BOOLEAN : RemapListReturn(1, ok)
    \/ handleCharacterDelete(charIdOf(1))
    \/ Prune(charIdOf(1))

SpecInflight == InitData /\ [][NextInflight]_vars

\* the chat c under the owner id the ground truth gives its file
RewrittenChat(c, gt) == IF c.file_name \in DOMAIN gt THEN Chat(gt[c.file_name], c.file_name) ELSE c

\* the chat c is in the folder f in the map m
InFolder(m, c, f) ==
    /\ ObjHas(m, ChatKey(c.characterId, c.file_name))
    /\ f \in Range(ObjGet(m, ChatKey(c.characterId, c.file_name)))

\* the pinned list the reconciliation found has an entry of another owner for the file of c
PinSibling(c) ==
    \E i \in 1..Len(last.pinned) : last.pinned[i].file_name = c.file_name /\ last.pinned[i] # c

\* the map the reconciliation found has a key of another owner for the file of c
KeySibling(c) ==
    \E i \in 1..Len(last.map) :
        /\ KeyFileName(last.map[i].key) = c.file_name
        /\ last.map[i].key # ChatKey(c.characterId, c.file_name)

TwiceDirs == {<<<<"a">>>>, <<<<"b">>>>, <<>>}

\* two remaps whose listings return one after the other, over pins and assignments
NextTwice ==
    \/ \E c \in PrunedChats : TogglePin(c)
    \/ AddFolder("n", Null)
    \/ \E c \in PrunedChats : Assign(c, FolderIds[1])
    \/ \E d \in TwiceDirs : HostDirectoryChange(d)
    \/ \E r \in RemapSlots : handleCharacterPageLoaded(r)
    \/ \E r \in RemapSlots : RemapBegin(r)
    \/ \E r \in RemapSlots, ok \in BOOLEAN : RemapListReturn(r, ok)

SpecTwice == InitData /\ [][NextTwice]_vars

\* C23: the remap is idempotent. A remap that completes right after another one, with the
\* same ground truth and the same owner set, leaves the Pinned Set and the Assignment Map as
\* the first left them, saves nothing and requests no view refresh.
C23_RemapIdempotent ==
    (last.op = "remap" /\ last.again) =>
        /\ pinned = last.pinned
        /\ chatFolders = last.map
        /\ last.saved = {}
        /\ ~last.updatesMade

\* a second remap completed with the ground truth of the first, which had rewritten both
\* the Pinned Set and the Assignment Map
C23_Witness ==
    /\ last.op = "remap" /\ last.again
    /\ last.firstSaved = {"pinnedChats", "chatFolders"}
    /\ DOMAIN last.gt # {}


\* C24: the Pinned Set stays a set. In every state reached from the empty Pinned Set by
\* togglePin and remap, no two entries have the same owner id and file name.
C24_PinnedIsSet ==
    \A i, j \in 1..Len(pinned) : pinned[i] = pinned[j] => i = j

\* a remap left two equal entries where it found two pins of one file name under two owners
C24_RemapMadeDuplicate ==
    /\ last.op = "remap"
    /\ \A i, j \in 1..Len(last.pinned) : last.pinned[i] = last.pinned[j] => i = j
    /\ \E i, j \in 1..Len(pinned) : i # j /\ pinned[i] = pinned[j]


\* the owner at the id o of the directory chars lists a chat file named f
OwnerLists(chars, hc, o, f) ==
    \E i \in 1..Len(chars) : charIdOf(i) = o /\ f \in hc[chars[i]]

\* every file of the ground truth gt is listed by the owner gt gives it
GroundTruthCurrent(gt, chars, hc) ==
    \A f \in DOMAIN gt : OwnerLists(chars, hc, gt[f], f)

\* C25: the remap does not move a correctly stored entry. After a remap whose ground truth
\* is the current listing, every Pinned Set entry and Assignment Map entry (o, f) it found
\* such that the owner o lists a chat file named f is unchanged, also when another owner
\* lists a file of that name.
C25_RemapKeepsCorrectEntries ==
    (last.op = "remap" /\ GroundTruthCurrent(last.gt, last.chars, hostChats)) =>
        /\ \A i \in 1..Len(last.pinned) :
              OwnerLists(last.chars, hostChats, last.pinned[i].characterId, last.pinned[i].file_name)
                 => (i <= Len(pinned) /\ pinned[i] = last.pinned[i])
        /\ \A i \in 1..Len(last.map) :
              OwnerLists(last.chars, hostChats, KeyCharId(last.map[i].key), KeyFileName(last.map[i].key))
                 => /\ ObjHas(chatFolders, last.map[i].key)
                    /\ ObjGet(chatFolders, last.map[i].key) = last.map[i].ids

\* a remap with a current ground truth took the pin and the folder list of a chat that its
\* owner lists to the other owner listing the file name
C25_MovedCorrectEntry ==
    /\ last.op = "remap" /\ GroundTruthCurrent(last.gt, last.chars, hostChats)
    /\ \E c \in ListedChats(last.chars, hostChats) :
          /\ isChatPinned(last.pinned, c) /\ ~isChatPinned(pinned, c)
          /\ ObjHas(last.map, ChatKey(c.characterId, c.file_name))
          /\ ~ObjHas(chatFolders, ChatKey(c.characterId, c.file_name))


\* the chats pinned and assigned under overlapping remaps: those of the file one owner lists
ConvergeChats == {c \in ListedChats(characters, hostChats) : c.file_name = <<"y">>}

\* two remaps in flight together over a host whose directory changes; one folder is made
NextConverge ==
    \/ \E c \in ConvergeChats : TogglePin(c)
    \/ folders = <<>> /\ AddFolder("n", Null)
    \/ \E c \in ConvergeChats : Assign(c, FolderIds[1])
    \/ \E d \in OrganizeDirs : HostDirectoryChange(d)
    \/ \E r \in RemapSlots : handleCharacterPageLoaded(r)
    \/ \E r \in RemapSlots : RemapBegin(r)
    \/ \E r \in RemapSlots : RemapListReturn(r, TRUE)

SpecConverge == InitData /\ [][NextConverge]_vars

\* the id of the one owner of the directory chars that lists the file f, if there is one such
SoleOwner(chars, hc, f) ==
    {charIdOf(i) : i \in {k \in 1..Len(chars) :
        /\ f \in hc[chars[k]]
        /\ \A j \in 1..Len(chars) : f \in hc[chars[j]] => j = k}}

\* C26: overlapping remaps converge to the newest ground truth. When a remap completes right
\* after another one whose ground truth was the complete listing of the directory as it is
\* now, and no remap is left in flight, every stored entry whose file name is listed by one
\* current owner carries the id of that owner.
C26_RemapsConverge ==
    (last.op = "remap" /\ last.afterClean /\ \A r \in RemapSlots : rpc[r] = "idle") =>
        \A f \in Files : \A o \in SoleOwner(characters, hostChats, f) :
            /\ \A i \in 1..Len(pinned) : pinned[i].file_name = f => pinned[i].characterId = o
            /\ \A i \in 1..Len(chatFolders) :
                  KeyFileName(chatFolders[i].key) = f => KeyCharId(chatFolders[i].key) = o

\* a remap that began before the directory changed completed after the remap that began
\* after the change, and took a pin from the current owner of the file back to the former id
C26_OlderOverwroteNewer ==
    /\ last.op = "remap" /\ last.afterClean /\ ~last.clean
    /\ \A r \in RemapSlots : rpc[r] = "idle"
    /\ \E i \in 1..Len(pinned) :
          /\ last.pinned[i].characterId \in SoleOwner(characters, hostChats, pinned[i].file_name)
          /\ pinned[i].characterId \notin SoleOwner(characters, hostChats, pinned[i].file_name)


\* the folders tab: folders and assignments made in it, each followed by its refresh request
NextDropped ==
    \/ \E c \in RefreshSlots : AddFolderClick(c, "n", Null)
    \/ \E c \in RefreshSlots, chat \in PrunedChats : AssignClick(c, chat, FolderIds[1])
    \/ \E c \in RefreshSlots, chat \in PrunedChats : RemoveClick(c, chat, FolderIds[1])
    \/ \E c \in RefreshSlots : RefreshCall(c, TRUE, FALSE)
    \/ \E c \in RefreshSlots, ok \in SUBSET (1..MaxChars) : RefreshListsReturn(c, ok)
    \/ \E c \in RefreshSlots, throws \in BOOLEAN : RefreshStatsReturn(c, throws)

SpecDropped == InitData /\ [][NextDropped]_vars

\* C27: a dropped refresh request loses no data-model change. When a refresh completes after
\* requests that followed folder or assignment changes were dropped by the latch, the view
\* it built has one group per folder of the folder list as it was after the last of those
\* changes, and each group holds the aggregated chats that the Assignment Map, as it was
\* after the last of those changes, assigns to the folder.
C27_DroppedRequestLosesNothing ==
    (rfLast.outcome = "normal" /\ rfLast.pending.set) =>
        LET fs == rfLast.pending.folders
            m == rfLast.pending.map
        IN  /\ Len(rfLast.view) = Len(fs)
            /\ \A i \in 1..Len(fs) :
                  /\ rfLast.view[i].id = fs[i].id
                  /\ \A c \in Range(rfLast.allChats) :
                        c \in Range(rfLast.view[i].chats)
                           <=> \E k \in 1..Len(m) :
                                  /\ m[k].key = ChatKey(c.characterId, c.file_name)
                                  /\ fs[i].id \in Range(m[k].ids)

\* a refresh completed after the request that followed a change made while it was in flight
\* was dropped; its view has two folders and a chat in one of them
C27_Witness ==
    /\ rfLast.outcome = "normal" /\ rfLast.pending.set
    /\ Len(rfLast.view) = 2
    /\ \E i \in 1..Len(rfLast.view) : Len(rfLast.view[i].chats) > 0


\* the directories of the Unpin specification: the second character is deleted
UnpinDirs == {<<<<"a">>, <<"b">>>>, <<<<"a">>>>}

\* the recent view with pinned chats, the Unpin dialog, and the prune of a deleted character
NextUnpin ==
    \/ \E c \in ListedChats(characters, hostChats) : PinClick(1, c)
    \/ renderAllChatsInRecentChatsTab(1)
    \/ PassListsReturn(1, 1..Len(aentries[1]))
    \/ PassStatsReturn(1, Range(UniqueCharacterIds(aAllChats[1])))
    \/ \E i \in 1..MaxPinned : UnpinConfirm(1, i)
    \/ \E d \in UnpinDirs : HostDirectoryChange(d)
    \/ handleCharacterDelete(charIdOf(2))
    \/ Prune(charIdOf(2))

SpecUnpin == InitData /\ [][NextUnpin]_vars

\* C28: confirming the Unpin dialog never pins. After the Unpin dialog of an item rendered
\* as pinned was confirmed, the Pinned Set has no entry for the item's owner id and file name
\* and has no more entries than before, whatever happened to the Pinned Set since the item
\* was rendered.
C28_UnpinNeverPins ==
    last.op = "unpinConfirm" =>
        /\ ~isChatPinned(pinned, last.chat)
        /\ Len(pinned) <= Len(last.pinned)

\* the Unpin dialog of an item was confirmed after the entry of the item had left the Pinned
\* Set: the chat is pinned again and the Pinned Set has grown
C28_UnpinPinned ==
    /\ last.op = "unpinConfirm"
    /\ ~isChatPinned(last.pinned, last.chat)
    /\ isChatPinned(pinned, last.chat)
    /\ Len(pinned) = Len(last.pinned) + 1


\* pins and assignments of listed chats, renames that the host carries out and renames that
\* it does not
NextRenameFails ==
    \/ AddFolder("n", Null)
    \/ \E c \in RenamedChats : TogglePin(c)
    \/ \E c \in PrunedChats : Assign(c, FolderIds[1])
    \/ \E c \in PrunedChats, n \in Files : ChatRename(1, c, n)
    \/ \E c \in RenamedChats, n \in Files, rejects \in BOOLEAN : ChatRenameFails(1, c, n, rejects)

SpecRenameFails == InitData /\ [][NextRenameFails]_vars

\* C29: a failed host rename changes nothing. After the rename handler ran for a rename that
\* the host did not carry out, whether the host call rejected or reported the failure, the
\* Pinned Set and the Assignment Map are as they were.
C29_FailedRenameChangesNothing ==
    last.op \in {"renameRejected", "renameReported"} =>
        /\ pinned = last.pinned
        /\ chatFolders = last.map

\* the host reported that it did not rename a pinned and assigned chat, and the pin and the
\* folder list are stored under the new name, which no file of the owner has
C29_RenamedWithoutFile ==
    /\ last.op = "renameReported"
    /\ isChatPinned(last.pinned, last.chat)
    /\ ObjHas(last.map, ChatKey(last.chat.characterId, last.chat.file_name))
    /\ isChatPinned(pinned, Chat(last.chat.characterId, last.newName))
    /\ ObjHas(chatFolders, ChatKey(last.chat.characterId, last.newName))
    /\ ~isChatPinned(pinned, last.chat)
    /\ last.newName \notin hostChats[OwnerOf(last.chat)]


\* the backups over the days: the automatic backup of a login, the Create Backup button
NextBackup ==
    \/ \E forceCreate, deleteOk, uploadOk \in BOOLEAN : createBackup(forceCreate, deleteOk, uploadOk)
    \/ NextDay

SpecBackup == InitData /\ [][NextBackup]_vars

\* C30: a failed backup creation is harmless. After a createBackup call that returned false
\* because the upload failed, the recorded list of versions and the files on the server are
\* those of before the call, and every recorded version has its file on the server.
C30_FailedBackupHarmless ==
    (backupLast.op = "createBackup" /\ ~backupLast.result) =>
        /\ backupVersions = backupLast.versions
        /\ serverFiles = backupLast.files
        /\ \A i \in 1..Len(backupVersions) : backupVersions[i].url \in serverFiles

\* a createBackup call returned false after it had deleted files: a recorded version, whose
\* file was on the server before the call, has no file on the server
C30_RecordedWithoutFile ==
    /\ backupLast.op = "createBackup" /\ ~backupLast.result
    /\ backupVersions = backupLast.versions
    /\ \E i \in 1..Len(backupVersions) :
          backupVersions[i].url \in backupLast.files /\ backupVersions[i].url \notin serverFiles

====
